---- MODULE Spec2Model ----
(***************************************************************************)
(* Document transformation pipeline of the PDF editor                      *)
(* (packages/shared/src/pdf-operations.ts): page set operations (merge,    *)
(* reorder, extract, delete) and the annotation compositor.                *)
(*                                                                         *)
(* A byte buffer is the serialised form of a document: a header and the    *)
(* page dictionaries of its page tree.  PDFDocument.load parses a buffer   *)
(* into a document object that lives on a heap of objects; the operations  *)
(* mutate heap objects (addPage, drawRectangle, ...) and PDFDocument.save  *)
(* serialises an object back to a buffer.  pdf-lib is not part of the      *)
(* repository; its calls are modelled by what they do at the call sites.   *)
(*                                                                         *)
(* Document-space y coordinates are held in half points (field y2 = 2*y)   *)
(* so that rect.height / 2 of drawStrikeout is exact for odd heights.      *)
(***************************************************************************)
EXTENDS Integers, Sequences, FiniteSets, TLC

VARIABLES files, heap, op, argFiles, argSources, argFile, argList, argAnns, out

\* What the IPC handler of the operation answers to the renderer.
VARIABLES reply

\* The compression orchestrator: the invocations of the 'pdf:compress'
\* handler, the scratch directories under os.tmpdir(), and the call of the
\* in-process compressPdf; installed is the set of candidate paths at which
\* a Ghostscript binary answers.
VARIABLES calls, tmp, inproc, installed

\* The renderer's store (renderer/store/index.ts): the open document, its
\* annotations, the tool, the viewport's current page, the sidebar
\* thumbnails, the merge panel's sources and page list, the loading flag
\* and the error; ids counts the identifiers generated so far.
VARIABLES currentPdf, storeAnnotations, currentTool, currentPage, thumbnails,
          mergeSources, mergePages, isLoading, storeError, ids

\* The drawing state of the annotation layer, the asynchronous store
\* actions that are in flight, and the files written through writePdf.
VARIABLES drawing, running, disk

pvars == <<files, heap, op, argFiles, argSources, argFile, argList, argAnns, out, reply>>

cvars == <<calls, tmp, inproc, installed>>

svars == <<currentPdf, storeAnnotations, currentTool, currentPage, thumbnails,
           mergeSources, mergePages, isLoading, storeError, ids, drawing, running, disk>>

vars == <<pvars, cvars, svars>>

(* ------------------------------ bounds --------------------------------- *)

\* pages of an input file
MaxPages == 3
\* pages selected in one merge, over all its sources
MaxSelected == 3
\* length of the index list of reorderPages, extractPages, deletePages
MaxOrder == 3
\* sources of one merge
MaxSources == 2
\* annotations of one applyAnnotations call
MaxAnns == 2
\* identifiers generated for merge sources, merge page items and annotations
MaxIds == 5

\* Two input files, so that a merge can draw on distinct sources.
FileIds == {1, 2}

BoundedSeq(S, n) == UNION {[1..k -> S] : k \in 0..n}

RECURSIVE Sum(_, _)
Sum(nums, i) == IF i > Len(nums) THEN 0 ELSE nums[i] + Sum(nums, i + 1)

RECURSIVE Concat(_, _)
Concat(lists, i) == IF i > Len(lists) THEN <<>> ELSE lists[i] \o Concat(lists, i + 1)

(* ------------------------------ data ----------------------------------- *)

\* Page geometry of the input files: file 1 holds Letter pages (the default
\* size of createEmptyPdf), file 2 holds A4 pages; the rotation follows the
\* page index.

\* A page that no input file holds: the page PDFDocument.addPage() creates.
NoFile == 0

\* createEmptyPdf, lines 276-277
LetterWidth == 612
LetterHeight == 792

Page(f, i) ==
  [file |-> f, index |-> i,
   width |-> IF f = 1 THEN LetterWidth ELSE 595,
   height |-> IF f = 1 THEN LetterHeight ELSE 842,
   rotation |-> 90 * (i % 4),
   content |-> <<>>]

DefaultPage ==
  [file |-> NoFile, index |-> 0, width |-> 595, height |-> 842,
   rotation |-> 0, content |-> <<>>]

PdfBytes(f, n) == [header |-> "%PDF", body |-> [i \in 1..n |-> Page(f, i - 1)]]

JunkBytes == [header |-> "junk", body |-> <<>>]

NoBytes == [header |-> "none", body |-> <<>>]

\* src/packages/shared/src/types.ts Rect, in screen space (top-left origin)
Rects == {[x |-> 10, y |-> 20, width |-> 100, height |-> 30],
          [x |-> 5, y |-> 7, width |-> 40, height |-> 15]}

AnnotationTypes ==
  {"highlight", "underline", "strikeout", "freeform", "text", "rectangle", "arrow"}

Yellow == <<255, 255, 0>>

\* Page indices of annotations: the first two pages, and MaxPages, which is
\* a page of no input file.
AnnotationPages == {0, 1, MaxPages}

\* Annotation records the caller can pass: every type, text annotations
\* with and without content.
AnnotationInputs ==
  {[type |-> t, pageIndex |-> p, rect |-> r, color |-> Yellow, opacity |-> 50,
    content |-> ""] :
     t \in AnnotationTypes, p \in AnnotationPages, r \in Rects}
  \cup
  {[type |-> "text", pageIndex |-> p, rect |-> r, color |-> Yellow,
    opacity |-> 50, content |-> "note"] : p \in AnnotationPages, r \in Rects}

\* Page index lists the caller can pass: in range, negative, past the end.
IndexInputs == BoundedSeq(-1..MaxPages, MaxOrder)

\* src/packages/shared/src/types.ts MergeSource; bytes is the buffer of
\* input file `file`.  The sources of a merge whose files are fs and whose
\* selections are the consecutive pieces, of lengths lens, of the index
\* list flat.
MergeSources(fs, lens, flat) ==
  [i \in 1..Len(fs) |->
     [file |-> fs[i],
      selectedPages |->
        SubSeq(flat, Sum(SubSeq(lens, 1, i - 1), 1) + 1, Sum(SubSeq(lens, 1, i), 1))]]

(* ------------------------- pdf-lib call sites --------------------------- *)

\* The heap of one operation call: the caller's byte buffers and the
\* document objects the call has created so far (a reference is an index
\* into docs).  Every operator below takes the heap and returns the heap
\* it leaves, with threw = TRUE when the call throws.
EmptyHeap(bufs) == [bufs |-> bufs, docs |-> <<>>]

\* PDFDocument.load(bytes, { ignoreEncryption: true }): parses the buffer
\* into a new document object, throws on bytes that are no PDF.
Load(h, f) ==
  IF h.bufs[f].header = "%PDF"
  THEN [threw |-> FALSE, ref |-> Len(h.docs) + 1,
        heap |-> [h EXCEPT !.docs = Append(@, [from |-> f, pages |-> h.bufs[f].body])]]
  ELSE [threw |-> TRUE, ref |-> 0, heap |-> h]

\* PDFDocument.create(): a new document object without pages.
Create(h) ==
  [ref |-> Len(h.docs) + 1,
   heap |-> [h EXCEPT !.docs = Append(@, [from |-> NoFile, pages |-> <<>>])]]

getPageCount(h, ref) == Len(h.docs[ref].pages)

\* dest.copyPages(src, indices): srcPages[indices[k]].node of an index that
\* is no page of src is a property read of undefined and throws; otherwise
\* one fresh copy per list entry, in list order.  The source is only read.
copyPages_Moves(h, dest, src, indices) ==
  LET srcPages == h.docs[src].pages
      inRange(k) == indices[k] >= 0 /\ indices[k] < Len(srcPages)
  IN IF \E k \in 1..Len(indices) : ~inRange(k)
     THEN [threw |-> TRUE, pages |-> <<>>, heap |-> h]
     ELSE [threw |-> FALSE,
           pages |-> [k \in 1..Len(indices) |-> srcPages[indices[k] + 1]],
           heap |-> [h EXCEPT !.docs[src].pages =
                       SelectSeq(@, LAMBDA p :
                         \A k \in 1..Len(indices) : indices[k] # p.index)]]

copyPages_Ascending(h, dest, src, indices) ==
  LET srcPages == h.docs[src].pages
      inRange(k) == indices[k] >= 0 /\ indices[k] < Len(srcPages)
  IN IF \E k \in 1..Len(indices) : ~inRange(k)
     THEN [threw |-> TRUE, pages |-> <<>>, heap |-> h]
     ELSE [threw |-> FALSE,
           pages |-> SelectSeq(srcPages, LAMBDA p :
                       \E k \in 1..Len(indices) : indices[k] = p.index),
           heap |-> h]

copyPages_Lenient(h, dest, src, indices) ==
  LET srcPages == h.docs[src].pages
      valid == SelectSeq(indices, LAMBDA i : i >= 0 /\ i < Len(srcPages))
  IN [threw |-> FALSE,
      pages |-> [k \in 1..Len(valid) |-> srcPages[valid[k] + 1]],
      heap |-> h]

copyPages(h, dest, src, indices) ==
  LET srcPages == h.docs[src].pages
      inRange(k) == indices[k] >= 0 /\ indices[k] < Len(srcPages)
  IN IF \E k \in 1..Len(indices) : ~inRange(k)
     THEN [threw |-> TRUE, pages |-> <<>>, heap |-> h]
     ELSE [threw |-> FALSE,
           pages |-> [k \in 1..Len(indices) |-> srcPages[indices[k] + 1]],
           heap |-> h]

\* for (const page of copiedPages) dest.addPage(page): appends each page.
addPages_Front(h, dest, copiedPages) ==
  [h EXCEPT !.docs[dest].pages = copiedPages \o @]

addPages(h, dest, copiedPages) ==
  [h EXCEPT !.docs[dest].pages = @ \o copiedPages]

\* doc.save(): addDefaultPage defaults to true, so a document without
\* pages gets one blank page before it is serialised (compressPdf turns
\* the option off explicitly, the operations here do not).
Save(h, ref) ==
  LET pages == IF h.docs[ref].pages = <<>> THEN <<DefaultPage>>
               ELSE h.docs[ref].pages
  IN [bytes |-> [header |-> "%PDF", body |-> pages],
      heap |-> [h EXCEPT !.docs[ref].pages = pages]]

\* What a call hands back: a returned value (success is the flag of a
\* MergeResult, TRUE for the operations that return plain bytes) or a throw.
Returned(bytes) ==
  [outcome |-> "returned", success |-> TRUE, bytes |-> bytes, error |-> ""]

Failed(msg) ==
  [outcome |-> "returned", success |-> FALSE, bytes |-> NoBytes, error |-> msg]

Threw(msg) ==
  [outcome |-> "threw", success |-> FALSE, bytes |-> NoBytes, error |-> msg]

NoResult == [outcome |-> "none", success |-> FALSE, bytes |-> NoBytes, error |-> ""]

(* -------------------------- page set operations ------------------------- *)

\* mergePdfs, lines 56-58: the explicit selection, or every page in
\* ascending order when the selection is empty.
pagesToCopy_NoDefault(selectedPages, pageCount) == selectedPages

pagesToCopy(selectedPages, pageCount) ==
  IF Len(selectedPages) > 0 THEN selectedPages
  ELSE [i \in 1..pageCount |-> i - 1]

\* mergePdfs, lines 54-65: the loop over the sources from source i on.
\* A throw of load or copyPages leaves the loop at once.
RECURSIVE mergeLoop(_, _, _, _)
mergeLoop(h, mergedPdf, sources, i) ==
  IF i > Len(sources) THEN [threw |-> FALSE, error |-> "", heap |-> h]
  ELSE LET ld == Load(h, sources[i].file)
       IN IF ld.threw
          THEN [threw |-> TRUE, error |-> "Failed to parse PDF document", heap |-> ld.heap]
          ELSE LET cp == copyPages(ld.heap, mergedPdf, ld.ref,
                           pagesToCopy(sources[i].selectedPages,
                                       getPageCount(ld.heap, ld.ref)))
               IN IF cp.threw
                  THEN [threw |-> TRUE,
                        error |-> "Cannot read properties of undefined", heap |-> cp.heap]
                  ELSE mergeLoop(addPages(cp.heap, mergedPdf, cp.pages),
                                 mergedPdf, sources, i + 1)

\* mergePdfs, lines 50-79
mergePdfs(h, sources) ==
  LET cr == Create(h)
      lp == mergeLoop(cr.heap, cr.ref, sources, 1)
      sv == Save(lp.heap, cr.ref)
  IN IF lp.threw
     THEN [result |-> Failed(lp.error), heap |-> lp.heap]
     ELSE [result |-> Returned(sv.bytes), heap |-> sv.heap]

\* reorderPages, lines 84-98: load, create, copyPages, addPage each, save.
reorderPages(h, f, newOrder) ==
  LET ld == Load(h, f)
      cr == Create(ld.heap)
      cp == copyPages(cr.heap, cr.ref, ld.ref, newOrder)
      sv == Save(addPages(cp.heap, cr.ref, cp.pages), cr.ref)
  IN IF ld.threw
     THEN [result |-> Threw("Failed to parse PDF document"), heap |-> ld.heap]
     ELSE IF cp.threw
     THEN [result |-> Threw("Cannot read properties of undefined"), heap |-> cp.heap]
     ELSE [result |-> Returned(sv.bytes), heap |-> sv.heap]

\* extractPages, lines 103-117: the same steps on the caller's index list.
extractPages_Ascending(h, f, pageIndices) ==
  LET ld == Load(h, f)
      cr == Create(ld.heap)
      cp == copyPages_Ascending(cr.heap, cr.ref, ld.ref, pageIndices)
      sv == Save(addPages(cp.heap, cr.ref, cp.pages), cr.ref)
  IN IF ld.threw
     THEN [result |-> Threw("Failed to parse PDF document"), heap |-> ld.heap]
     ELSE IF cp.threw
     THEN [result |-> Threw("Cannot read properties of undefined"), heap |-> cp.heap]
     ELSE [result |-> Returned(sv.bytes), heap |-> sv.heap]

extractPages(h, f, pageIndices) ==
  LET ld == Load(h, f)
      cr == Create(ld.heap)
      cp == copyPages(cr.heap, cr.ref, ld.ref, pageIndices)
      sv == Save(addPages(cp.heap, cr.ref, cp.pages), cr.ref)
  IN IF ld.threw
     THEN [result |-> Threw("Failed to parse PDF document"), heap |-> ld.heap]
     ELSE IF cp.threw
     THEN [result |-> Threw("Cannot read properties of undefined"), heap |-> cp.heap]
     ELSE [result |-> Returned(sv.bytes), heap |-> sv.heap]

\* deletePages, lines 129-130: the indices of [0, pageCount) that the list
\* does not include, ascending.
pagesToKeep_Inverted(pageCount, pageIndicesToDelete) ==
  SelectSeq([i \in 1..pageCount |-> i - 1],
            LAMBDA i : \E k \in 1..Len(pageIndicesToDelete) : pageIndicesToDelete[k] = i)

pagesToKeep_FirstOnly(pageCount, pageIndicesToDelete) ==
  SelectSeq([i \in 1..pageCount |-> i - 1],
            LAMBDA i : ~(Len(pageIndicesToDelete) > 0 /\ pageIndicesToDelete[1] = i))

pagesToKeep(pageCount, pageIndicesToDelete) ==
  SelectSeq([i \in 1..pageCount |-> i - 1],
            LAMBDA i : ~\E k \in 1..Len(pageIndicesToDelete) : pageIndicesToDelete[k] = i)

\* deletePages, lines 122-133
deletePages(h, f, pageIndicesToDelete) ==
  LET ld == Load(h, f)
  IN IF ld.threw
     THEN [result |-> Threw("Failed to parse PDF document"), heap |-> ld.heap]
     ELSE extractPages(ld.heap, f,
            pagesToKeep(getPageCount(ld.heap, ld.ref), pageIndicesToDelete))

(* ------------------------- annotation compositor ------------------------ *)

\* hexToRgb of ./utils: the three channel bytes of the hex string.
hexToRgb(color) == [r |-> color[1], g |-> color[2], b |-> color[3]]

\* A drawing operation appended to a page's content stream.  y2 is the
\* document-space y in half points; fields an operation does not take are 0
\* or "".
DrawOp(kind, x, y2, xEnd, width, height, stroke, text, color, opacity) ==
  [draw |-> kind, x |-> x, y2 |-> y2, xEnd |-> xEnd, width |-> width,
   height |-> height, stroke |-> stroke, text |-> text, color |-> color,
   opacity |-> opacity]

Emit(page, drawOp) == [page EXCEPT !.content = Append(@, drawOp)]

\* drawHighlight, lines 175-189: filled rectangle, bottom edge at
\* pageHeight - rect.y - rect.height.
drawHighlight_NoFlip(page, annotation, pageHeight, color) ==
  Emit(page, DrawOp("rectangle-fill", annotation.rect.x,
                    2 * annotation.rect.y,
                    0, annotation.rect.width, annotation.rect.height, 0, "",
                    color, annotation.opacity))

drawHighlight(page, annotation, pageHeight, color) ==
  Emit(page, DrawOp("rectangle-fill", annotation.rect.x,
                    2 * (pageHeight - annotation.rect.y - annotation.rect.height),
                    0, annotation.rect.width, annotation.rect.height, 0, "",
                    color, annotation.opacity))

\* drawUnderline, lines 191-205: line of thickness 2 along the bottom edge.
drawUnderline(page, annotation, pageHeight, color) ==
  LET y2 == 2 * (pageHeight - annotation.rect.y - annotation.rect.height)
  IN Emit(page, DrawOp("line", annotation.rect.x, y2,
                       annotation.rect.x + annotation.rect.width, 0, 0, 2, "",
                       color, annotation.opacity))

\* drawStrikeout, lines 207-221: line of thickness 2 through the vertical
\* midpoint, pageHeight - rect.y - rect.height / 2.
drawStrikeout_BottomEdge(page, annotation, pageHeight, color) ==
  LET y2 == 2 * (pageHeight - annotation.rect.y - annotation.rect.height)
  IN Emit(page, DrawOp("line", annotation.rect.x, y2,
                       annotation.rect.x + annotation.rect.width, 0, 0, 2, "",
                       color, annotation.opacity))

drawStrikeout(page, annotation, pageHeight, color) ==
  LET y2 == 2 * (pageHeight - annotation.rect.y) - annotation.rect.height
  IN Emit(page, DrawOp("line", annotation.rect.x, y2,
                       annotation.rect.x + annotation.rect.width, 0, 0, 2, "",
                       color, annotation.opacity))

\* drawRectangle, lines 223-238: outline with border width 2.
drawRectangle(page, annotation, pageHeight, color) ==
  Emit(page, DrawOp("rectangle-border", annotation.rect.x,
                    2 * (pageHeight - annotation.rect.y - annotation.rect.height),
                    0, annotation.rect.width, annotation.rect.height, 2, "",
                    color, annotation.opacity))

\* drawTextAnnotation, lines 240-256: nothing without content, else the
\* text at size 12.
drawTextAnnotation_Always(page, annotation, pageHeight, color) ==
  Emit(page, DrawOp("text", annotation.rect.x,
                    2 * (pageHeight - annotation.rect.y - annotation.rect.height),
                    0, 0, 12, 0, annotation.content,
                    color, annotation.opacity))

drawTextAnnotation(page, annotation, pageHeight, color) ==
  IF annotation.content = "" THEN page
  ELSE Emit(page, DrawOp("text", annotation.rect.x,
                         2 * (pageHeight - annotation.rect.y - annotation.rect.height),
                         0, 0, 12, 0, annotation.content,
                         color, annotation.opacity))

\* applyAnnotations, lines 146-147: pages[annotation.pageIndex]; 0 stands
\* for undefined (no such element), else the position in the page array.
pageLookup_Clamped(pages, pageIndex) ==
  IF pageIndex >= 0 /\ pageIndex < Len(pages) THEN pageIndex + 1 ELSE Len(pages)

pageLookup(pages, pageIndex) ==
  IF pageIndex >= 0 /\ pageIndex < Len(pages) THEN pageIndex + 1 ELSE 0

\* applyAnnotations, lines 149-169: the switch on the annotation type.
drawAnnotation(page, annotation) ==
  LET pageHeight == page.height
      color == hexToRgb(annotation.color)
  IN CASE annotation.type = "highlight" -> drawHighlight(page, annotation, pageHeight, color)
       [] annotation.type = "underline" -> drawUnderline(page, annotation, pageHeight, color)
       [] annotation.type = "strikeout" -> drawStrikeout(page, annotation, pageHeight, color)
       [] annotation.type = "rectangle" -> drawRectangle(page, annotation, pageHeight, color)
       [] annotation.type = "text" -> drawTextAnnotation(page, annotation, pageHeight, color)
       [] OTHER -> page

\* applyAnnotations, lines 145-170: the loop from annotation i on.
RECURSIVE annotationLoop(_, _, _)
annotationLoop(pages, annotations, i) ==
  IF i > Len(annotations) THEN pages
  ELSE LET at == pageLookup(pages, annotations[i].pageIndex)
       IN IF at = 0 THEN annotationLoop(pages, annotations, i + 1)
          ELSE annotationLoop(
                 [pages EXCEPT ![at] = drawAnnotation(pages[at], annotations[i])],
                 annotations, i + 1)

\* applyAnnotations, lines 138-173
applyAnnotations(h, f, annotations) ==
  LET ld == Load(h, f)
      drawn == [ld.heap EXCEPT !.docs[ld.ref].pages =
                  annotationLoop(@, annotations, 1)]
      sv == Save(drawn, ld.ref)
  IN IF ld.threw
     THEN [result |-> Threw("Failed to parse PDF document"), heap |-> ld.heap]
     ELSE [result |-> Returned(sv.bytes), heap |-> sv.heap]

(* ----------------------------- IPC handlers ----------------------------- *)

\* main/index.ts lines 82-203.

\* pdf-operations.ts lines 21-44: loadPdfInfo throws when the bytes do not
\* load, else returns the page count and the pages.
loadPdfInfo(h, f) ==
  LET ld == Load(h, f)
  IN IF ld.threw
     THEN [result |-> Threw("Failed to parse PDF document"), heap |-> ld.heap]
     ELSE [result |-> Returned([pageCount |-> getPageCount(ld.heap, ld.ref),
                                pages |-> ld.heap.docs[ld.ref].pages]),
           heap |-> ld.heap]

\* lines 85 and 99: fs readFile and writeFile; found is whether the path
\* can be read or written.
readFile(h, f, found) ==
  IF found THEN [result |-> Returned(h.bufs[f]), heap |-> h]
  ELSE [result |-> Threw("ENOENT: no such file or directory"), heap |-> h]

writeFile(h, f, found) ==
  IF found THEN [result |-> Returned(NoBytes), heap |-> h]
  ELSE [result |-> Threw("EACCES: permission denied"), heap |-> h]

\* The value a handler's promise settles with.
Resolved(success, data, error) ==
  [settled |-> "resolved", success |-> success, data |-> data, error |-> error]

Rejected(error) ==
  [settled |-> "rejected", success |-> FALSE, data |-> NoBytes, error |-> error]

NoReply == [settled |-> "none", success |-> FALSE, data |-> NoBytes, error |-> ""]

\* The try/catch of every handler: the catch turns an exception of the
\* operation into { success: false, error }; 'pdf:merge' returns the result
\* of mergePdfs as it is (line 128), 'pdf:write' returns { success: true }
\* (line 100), the others { success: true, data } (lines 86, 115, 143, 160,
\* 177, 194).
handle_NoCatch(name, r) ==
  IF r.outcome = "threw" THEN Rejected(r.error)
  ELSE IF name = "mergePdfs" THEN Resolved(r.success, r.bytes, r.error)
  ELSE IF name = "writeFile" THEN Resolved(TRUE, NoBytes, "")
  ELSE Resolved(TRUE, r.bytes, "")

handle(name, r) ==
  IF r.outcome = "threw" THEN Resolved(FALSE, NoBytes, r.error)
  ELSE IF name = "mergePdfs" THEN Resolved(r.success, r.bytes, r.error)
  ELSE IF name = "writeFile" THEN Resolved(TRUE, NoBytes, "")
  ELSE Resolved(TRUE, r.bytes, "")

(* ----------------------- compression orchestrator ----------------------- *)

\* The 'pdf:compress' handler of main/index.ts, lines 206-298, one step per
\* await, and compressPdf of pdf-operations.ts, lines 291-354.

\* Two invocations of the handler can be in flight at once.
CallIds == {1, 2}

\* Names mkdtemp(join(tmpdir(), 'pdf-compress-')) can return.
DirNames == {"pdf-compress-a", "pdf-compress-b", "pdf-compress-c"}

\* tempDir = null
NoDir == ""

\* Lengths of byte buffers and files: empty, small, large.
Sizes == {0, 3, 8}

\* src/packages/shared/src/types.ts CompressionLevel
CompressionLevels == {25, 50, 75}

\* lines 223-229
settingsMap(level) ==
  CASE level = 75 -> "/screen"
    [] level = 50 -> "/ebook"
    [] level = 25 -> "/printer"

\* lines 244-249
gsPaths == <<"/opt/homebrew/bin/gs", "/usr/local/bin/gs", "/usr/bin/gs", "gs">>

\* The environments: which of the candidates have a binary.
Installations == SUBSET {gsPaths[i] : i \in 1..Len(gsPaths)}

\* A buffer or file of the orchestrator: its length, and the invocation
\* whose input it is or was produced from (0: none).  present = FALSE is a
\* file that does not exist, or bytes that are undefined.
File(owner, size) == [present |-> TRUE, owner |-> owner, size |-> size]

Absent == [present |-> FALSE, owner |-> 0, size |-> 0]

\* A scratch directory with its input.pdf and output.pdf; creator is the
\* invocation whose mkdtemp made it, input the invocation whose buffer was
\* written to input.pdf (0: no such file).
NoDirectory == [exists |-> FALSE, creator |-> 0, input |-> 0, output |-> Absent]

NewDirectory(c) == [exists |-> TRUE, creator |-> c, input |-> 0, output |-> Absent]

\* JavaScript numbers that the size arithmetic can produce.
Num(n) == [kind |-> "number", n |-> n]

NaN == [kind |-> "NaN", n |-> 0]

NegInfinity == [kind |-> "-Infinity", n |-> 0]

\* Math.round of the fraction num / den, den > 0: halves go up.
MathRound(num, den) == (2 * num + den) \div (2 * den)

\* lines 269 and 336: Math.round((1 - compressedSize / originalSize) * 100)
roundedReduction(originalSize, compressedSize) ==
  IF originalSize > 0
  THEN Num(MathRound(100 * (originalSize - compressedSize), originalSize))
  ELSE IF compressedSize > 0 THEN NegInfinity ELSE NaN

\* lines 276 and 343: Math.max(0, reductionPercent)
clampReduction(x) ==
  CASE x.kind = "number" -> IF x.n > 0 THEN x ELSE Num(0)
    [] x.kind = "-Infinity" -> Num(0)
    [] x.kind = "NaN" -> NaN

\* src/packages/shared/src/types.ts CompressionResult
NoCompressionResult ==
  [kind |-> "none", success |-> FALSE, bytes |-> Absent, originalSize |-> 0,
   compressedSize |-> 0, reductionPercent |-> Num(0), error |-> ""]

\* lines 271-277 and 338-344
successResult(originalSize, compressedBytes) ==
  [kind |-> "CompressionResult", success |-> TRUE, bytes |-> compressedBytes,
   originalSize |-> originalSize, compressedSize |-> compressedBytes.size,
   reductionPercent |->
     clampReduction(roundedReduction(originalSize, compressedBytes.size)),
   error |-> ""]

\* lines 280-286 and 346-352
failureResult_KeepsBytes(originalSize, message) ==
  [kind |-> "CompressionResult", success |-> FALSE, bytes |-> File(0, originalSize),
   originalSize |-> originalSize, compressedSize |-> 0,
   reductionPercent |-> Num(0), error |-> message]

failureResult(originalSize, message) ==
  [kind |-> "CompressionResult", success |-> FALSE, bytes |-> Absent,
   originalSize |-> originalSize, compressedSize |-> originalSize,
   reductionPercent |-> Num(0), error |-> message]

\* One invocation of the handler.  pc is the await it stands at; steps is
\* the list of the awaited calls it has made, each with its argument and
\* whether it succeeded.
IdleCall ==
  [pc |-> "idle", bytes |-> Absent, level |-> 25, tempDir |-> NoDir,
   pdfSetting |-> "", probeAt |-> 1, gsPath |-> "gs", steps |-> <<>>,
   result |-> NoCompressionResult, outcome |-> "none", removed |-> 0]

Step(name, arg, ok) == [step |-> name, arg |-> arg, ok |-> ok]

Did(call, name, arg, ok) == [call EXCEPT !.steps = Append(@, Step(name, arg, ok))]

\* line 289: if (tempDir)
cleanupNeeded_OnSuccess(call) == call.tempDir # NoDir /\ call.result.success

cleanupNeeded(call) == call.tempDir # NoDir

\* lines 278-296: the catch block builds the failed result, then the
\* finally block runs: the rm is awaited when there is a directory.
caught_GoesOn(call, message) ==
  LET last == call.steps[Len(call.steps)].step
      failed == [call EXCEPT !.result = failureResult(call.bytes.size, message)]
  IN IF last = "writeFile" THEN [call EXCEPT !.pc = "probe"]
     ELSE IF last = "gs" THEN [call EXCEPT !.pc = "readFile"]
     ELSE IF cleanupNeeded(failed) THEN [failed EXCEPT !.pc = "rm"]
     ELSE [failed EXCEPT !.pc = "returned", !.outcome = "returned"]

caught(call, message) ==
  LET failed == [call EXCEPT !.result = failureResult(call.bytes.size, message)]
  IN IF cleanupNeeded(failed) THEN [failed EXCEPT !.pc = "rm"]
     ELSE [failed EXCEPT !.pc = "returned", !.outcome = "returned"]

\* lines 271-277, 287-296: the success result is built, then the finally
\* block runs.
succeeded(call, compressedBytes) ==
  LET done == [call EXCEPT !.result = successResult(call.bytes.size, compressedBytes)]
  IN IF cleanupNeeded(done) THEN [done EXCEPT !.pc = "rm"]
     ELSE [done EXCEPT !.pc = "returned", !.outcome = "returned"]

\* line 214: mkdtemp makes a directory that did not exist; the names it can
\* return.
mkdtemp_Fixed(dirs) == {"pdf-compress-a"}

mkdtemp(dirs) == {d \in DirNames : ~dirs[d].exists}

\* lines 252-260: what a version check decides: the path to use and
\* whether the loop goes on to the next candidate.
probed_NoBreak(call, ok) ==
  IF ok
  THEN [call EXCEPT !.gsPath = gsPaths[call.probeAt],
                    !.pc = IF call.probeAt < Len(gsPaths) THEN "probe" ELSE "gs",
                    !.probeAt = call.probeAt + 1]
  ELSE [call EXCEPT !.pc = IF call.probeAt < Len(gsPaths) THEN "probe" ELSE "gs",
                    !.probeAt = call.probeAt + 1]

probed(call, ok) ==
  IF ok
  THEN [call EXCEPT !.gsPath = gsPaths[call.probeAt], !.pc = "gs"]
  ELSE [call EXCEPT !.pc = IF call.probeAt < Len(gsPaths) THEN "probe" ELSE "gs",
                    !.probeAt = call.probeAt + 1]

\* lines 290-294: a failed rm is swallowed.
rmFailed_Escalates(call) == [call EXCEPT !.pc = "returned", !.outcome = "threw"]

rmFailed(call) == [call EXCEPT !.pc = "returned", !.outcome = "returned"]

\* Documents handed to the in-process compressPdf: bytes that are not a
\* PDF, or a PDF with or without document information and with a form that
\* is missing, unreadable, empty, flattenable or not flattenable.
Forms == {"none", "unreadable", "empty", "fields", "unflattenable"}

CompressInputs ==
  {[kind |-> "junk", size |-> n, form |-> "none", metadata |-> FALSE] : n \in Sizes}
    \cup {[kind |-> "pdf", size |-> n, form |-> f, metadata |-> m] :
             n \in Sizes \ {0}, f \in Forms, m \in BOOLEAN}

\* pdf-operations.ts line 301: updateMetadata: level < 50
updateMetadata(level) == level < 50

\* line 305: if (level >= 50), lines 306-311 clear the six fields
clearsMetadata(level) == level >= 50

\* line 315: if (level >= 75)
triesForm_AtFifty(level) == level >= 50

triesForm(level) == level >= 75

\* lines 316-324: getForm, getFields, flatten when there is a field; the
\* outcome of the block: whether flatten was called, whether it went
\* through, and whether an exception leaves the block.
flattenForm(form) ==
  CASE form = "unreadable" -> [called |-> FALSE, flattened |-> FALSE, throws |-> FALSE]
    [] form = "unflattenable" -> [called |-> TRUE, flattened |-> FALSE, throws |-> FALSE]
    [] form = "fields" -> [called |-> TRUE, flattened |-> TRUE, throws |-> FALSE]
    [] OTHER -> [called |-> FALSE, flattened |-> FALSE, throws |-> FALSE]

NoFlatten == [called |-> FALSE, flattened |-> FALSE, throws |-> FALSE]

IdleCompress ==
  [pc |-> "idle", doc |-> [kind |-> "junk", size |-> 0, form |-> "none", metadata |-> FALSE],
   level |-> 25, loaded |-> FALSE, refreshed |-> FALSE, cleared |-> FALSE,
   form |-> NoFlatten, result |-> NoCompressionResult, outcome |-> "none"]

\* lines 291-354; savedSize is the length of the bytes that save produces.
compressPdf(doc, level, savedSize) ==
  LET called == [IdleCompress EXCEPT !.pc = "returned", !.doc = doc, !.level = level,
                                     !.outcome = "returned"]
  IN IF doc.kind # "pdf"
     THEN [called EXCEPT !.result = failureResult(doc.size, "Failed to parse PDF document")]
     ELSE LET form == IF triesForm(level) THEN flattenForm(doc.form) ELSE NoFlatten
              ran == [called EXCEPT !.loaded = TRUE,
                                    !.refreshed = updateMetadata(level),
                                    !.cleared = clearsMetadata(level),
                                    !.form = form]
          IN IF form.throws
             THEN [ran EXCEPT !.result = failureResult(doc.size, "Could not flatten form")]
             ELSE [ran EXCEPT !.result = successResult(doc.size, File(0, savedSize))]

(* ---------------------------- renderer store ---------------------------- *)

\* renderer/store/index.ts, and the components that call it.

\* generateId (packages/shared/src/utils.ts): an identifier that was not
\* generated before; n identifiers were generated so far.
generateId(n) == n + 1

\* currentPdf: null
NoPdf == [open |-> FALSE, path |-> NoFile, bytes |-> NoBytes, pageCount |-> 0]

\* error: null
NoError == ""

\* src/packages/shared/src/types.ts MergePageItem; thumbnail is whether
\* thumbnailDataUrl is set.
MergePageItem(id, sourceId, pageIndex) ==
  [id |-> id, sourceId |-> sourceId, pageIndex |-> pageIndex, thumbnail |-> FALSE]

\* store lines 233-247; n identifiers were generated before the call.
addMergeSource(sources, pages, source, n) ==
  [mergeSources |-> Append(sources, source),
   mergePages |-> pages \o [k \in 1..Len(source.selectedPages) |->
                    MergePageItem(generateId(n + k - 1), source.id, source.selectedPages[k])]]

\* store lines 250-255
removeMergeSource_SourcesOnly(sources, pages, id) ==
  [mergeSources |-> SelectSeq(sources, LAMBDA src : src.id # id),
   mergePages |-> pages]

removeMergeSource(sources, pages, id) ==
  [mergeSources |-> SelectSeq(sources, LAMBDA src : src.id # id),
   mergePages |-> SelectSeq(pages, LAMBDA pg : pg.sourceId # id)]

\* arrayMove of @dnd-kit/sortable (part_002 line 243): the element at
\* position from is taken out and put in at position to.
arrayMove(list, from, to) ==
  LET without == SubSeq(list, 1, from - 1) \o SubSeq(list, from + 1, Len(list))
  IN SubSeq(without, 1, to - 1) \o <<list[from]>> \o SubSeq(without, to, Len(without))

\* part_002 lines 266-270: the thumbnail of page i of the source is set.
withThumbnail(pages, sourceId, i) ==
  [k \in 1..Len(pages) |->
     IF pages[k].sourceId = sourceId /\ pages[k].pageIndex = i
     THEN [pages[k] EXCEPT !.thumbnail = TRUE] ELSE pages[k]]

\* store lines 271-276: every source with the page indices of its entries
\* of mergePages, in the order of mergePages.
orderedSources(sources, pages) ==
  [i \in 1..Len(sources) |->
     LET own == SelectSeq(pages, LAMBDA pg : pg.sourceId = sources[i].id)
     IN [sources[i] EXCEPT !.selectedPages = [k \in 1..Len(own) |-> own[k].pageIndex]]]

\* An asynchronous store action: the await it stands at and its locals.
\* What the merge panel shows of a page list: the source and the page of each entry
displayed(pages) ==
  [k \in 1..Len(pages) |-> [sourceId |-> pages[k].sourceId, pageIndex |-> pages[k].pageIndex]]

IdleRun ==
  [pc |-> "idle", path |-> NoFile, bytes |-> NoBytes, list |-> <<>>, shown |-> <<>>,
   toSave |-> NoBytes, applied |-> "none"]

\* savePdf, store lines 152-162: the bytes to write, given the bytes of the
\* document and the answer of applyAnnotations.
bytesToSave_Answer(bytes, annotatedResult) == annotatedResult.data

bytesToSave(bytes, annotatedResult) ==
  IF annotatedResult.success /\ annotatedResult.data # NoBytes
  THEN annotatedResult.data
  ELSE bytes

\* savePdf, store line 166: the state update after the write has
\* isLoading only, the document stays as it is.
saveDone_KeepsBaked(pdf, written) == [pdf EXCEPT !.bytes = written]

saveDone(pdf, written) == pdf

StoreActions == {"openPdf", "savePdf", "executeMerge", "compressPdf"}

\* part_002 lines 118, 127, 137, 148: the tools of the toolbar; the select
\* and text tools carry no color.
Red == <<255, 0, 0>>

Tool(type) ==
  [type |-> type,
   color |-> CASE type = "highlight" -> Yellow
               [] type = "draw" -> Red
               [] OTHER -> <<>>]

Tools == {Tool(type) : type \in {"select", "highlight", "text", "draw"}}

\* An open document: the path it was read from, its bytes and page count
\* (store lines 119-123).
OpenPdf(f, bytes, pageCount) ==
  [open |-> TRUE, path |-> f, bytes |-> bytes, pageCount |-> pageCount]

\* getCanvasCoords: positions of the pointer on the canvas, on both axes.
CanvasCoords == {0, 4, 10}

Points == [x : CanvasCoords, y : CanvasCoords]

\* part_001 lines 119-126; null is the empty sequence
handleMouseDown(d, tool, coords) ==
  IF tool.type = "select" THEN d
  ELSE [isDrawing |-> TRUE, startPoint |-> <<coords>>,
        currentRect |-> <<[x |-> coords.x, y |-> coords.y, width |-> 0, height |-> 0]>>]

Min(a, b) == IF a < b THEN a ELSE b

Abs(a) == IF a < 0 THEN -a ELSE a

\* part_001 lines 128-138
handleMouseMove(d, coords) ==
  IF ~d.isDrawing \/ d.startPoint = <<>> THEN d
  ELSE [d EXCEPT !.currentRect =
          <<[x |-> Min(d.startPoint[1].x, coords.x),
             y |-> Min(d.startPoint[1].y, coords.y),
             width |-> Abs(coords.x - d.startPoint[1].x),
             height |-> Abs(coords.y - d.startPoint[1].y)]>>]

\* part_001 line 141: handleMouseUp goes on to addAnnotation
rectAccepted(d) ==
  /\ d.isDrawing
  /\ d.currentRect # <<>>
  /\ ~(d.currentRect[1].width < 5 \/ d.currentRect[1].height < 5)

\* part_001 lines 149-155 and store lines 198-209: the annotation
\* handleMouseUp adds, with the id addAnnotation gives it; the layer passes
\* no content.
newAnnotation(tool, pageIndex, rect, n) ==
  [id |-> generateId(n),
   type |-> IF tool.type = "draw" THEN "rectangle" ELSE tool.type,
   pageIndex |-> pageIndex,
   rect |-> rect,
   color |-> IF tool.color # <<>> THEN tool.color ELSE Yellow,
   opacity |-> 40,
   content |-> ""]

\* store lines 82-90, and the annotation layer's useState defaults
\* (part_001 lines 19-21).
NotDrawing == [isDrawing |-> FALSE, startPoint |-> <<>>, currentRect |-> <<>>]

StoreIdle ==
  /\ currentPdf = NoPdf
  /\ storeAnnotations = <<>>
  /\ currentTool = Tool("select")
  /\ currentPage = 0
  /\ thumbnails = 0
  /\ mergeSources = <<>>
  /\ mergePages = <<>>
  /\ isLoading = FALSE
  /\ storeError = NoError
  /\ ids = 0
  /\ drawing = NotDrawing
  /\ running = [a \in StoreActions |-> IdleRun]
  /\ disk = <<>>

(* ----------------------------- state machine ---------------------------- *)

\* files: the caller's byte buffers.  op and arg*: the call in progress and
\* its arguments, argFiles being the buffers as they were when the call
\* was made.  out: what the call handed back.  heap: the document objects
\* the call created (dropped when the caller takes the result).

\* File 1 is any document of up to MaxPages pages or no PDF at all, file 2
\* a document of MaxPages pages.
CompressorIdle ==
  /\ calls = [c \in CallIds |-> IdleCall]
  /\ tmp = [d \in DirNames |-> NoDirectory]
  /\ inproc = IdleCompress

Init ==
  /\ CompressorIdle
  /\ StoreIdle
  /\ installed = {}
  /\ \E bytes \in {PdfBytes(1, n) : n \in 0..MaxPages} \cup {JunkBytes} :
       files = (1 :> bytes) @@ (2 :> PdfBytes(2, MaxPages))
  /\ heap = <<>>
  /\ op = "idle"
  /\ argFiles = files
  /\ argSources = <<>>
  /\ argFile = 0
  /\ argList = <<>>
  /\ argAnns = <<>>
  /\ out = NoResult
  /\ reply = NoReply

Finish(name, r) ==
  /\ op' = name
  /\ argFiles' = files
  /\ out' = r.result
  /\ reply' = handle(name, r.result)
  /\ heap' = r.heap.docs
  /\ files' = r.heap.bufs
  /\ UNCHANGED <<cvars, svars>>

Merge ==
  /\ op = "idle"
  /\ \E k \in 0..MaxSources :
       \E fs \in [1..k -> FileIds], lens \in [1..k -> 0..MaxSelected] :
         /\ Sum(lens, 1) <= MaxSelected
         /\ \E flat \in [1..Sum(lens, 1) -> -1..MaxPages] :
              LET sources == MergeSources(fs, lens, flat)
              IN /\ argSources' = sources
                 /\ Finish("mergePdfs", mergePdfs(EmptyHeap(files), sources))
  /\ UNCHANGED <<argFile, argList, argAnns>>

Reorder ==
  /\ op = "idle"
  /\ \E f \in FileIds, newOrder \in IndexInputs :
       /\ argFile' = f
       /\ argList' = newOrder
       /\ Finish("reorderPages", reorderPages(EmptyHeap(files), f, newOrder))
  /\ UNCHANGED <<argSources, argAnns>>

Extract ==
  /\ op = "idle"
  /\ \E f \in FileIds, pageIndices \in IndexInputs :
       /\ argFile' = f
       /\ argList' = pageIndices
       /\ Finish("extractPages", extractPages(EmptyHeap(files), f, pageIndices))
  /\ UNCHANGED <<argSources, argAnns>>

Delete ==
  /\ op = "idle"
  /\ \E f \in FileIds, pageIndices \in IndexInputs :
       /\ argFile' = f
       /\ argList' = pageIndices
       /\ Finish("deletePages", deletePages(EmptyHeap(files), f, pageIndices))
  /\ UNCHANGED <<argSources, argAnns>>

Apply ==
  /\ op = "idle"
  /\ \E f \in FileIds, annotations \in BoundedSeq(AnnotationInputs, MaxAnns) :
       /\ argFile' = f
       /\ argAnns' = annotations
       /\ Finish("applyAnnotations", applyAnnotations(EmptyHeap(files), f, annotations))
  /\ UNCHANGED <<argSources, argList>>

\* 'pdf:read', lines 83-93
ReadPdf ==
  /\ op = "idle"
  /\ \E f \in FileIds, found \in BOOLEAN :
       /\ argFile' = f
       /\ Finish("readFile", readFile(EmptyHeap(files), f, found))
  /\ UNCHANGED <<argSources, argList, argAnns>>

\* 'pdf:write', lines 96-109
WritePdf ==
  /\ op = "idle"
  /\ \E f \in FileIds, found \in BOOLEAN :
       /\ argFile' = f
       /\ Finish("writeFile", writeFile(EmptyHeap(files), f, found))
  /\ UNCHANGED <<argSources, argList, argAnns>>

\* 'pdf:getInfo', lines 112-122
GetInfo ==
  /\ op = "idle"
  /\ \E f \in FileIds :
       /\ argFile' = f
       /\ Finish("loadPdfInfo", loadPdfInfo(EmptyHeap(files), f))
  /\ UNCHANGED <<argSources, argList, argAnns>>

\* The caller takes the result; the call's documents go out of scope.
Return ==
  /\ op # "idle"
  /\ op' = "idle"
  /\ heap' = <<>>
  /\ out' = NoResult
  /\ reply' = NoReply
  /\ argSources' = <<>>
  /\ argFile' = 0
  /\ argList' = <<>>
  /\ argAnns' = <<>>
  /\ argFiles' = files
  /\ UNCHANGED files
  /\ UNCHANGED <<cvars, svars>>

Next ==
  Merge \/ Reorder \/ Extract \/ Delete \/ Apply \/ ReadPdf \/ WritePdf \/ GetInfo \/ Return

Spec == Init /\ [][Next]_vars

\* The pipeline at rest while the compressor runs.
PipelineIdle ==
  /\ files = [f \in FileIds |-> JunkBytes]
  /\ heap = <<>>
  /\ op = "idle"
  /\ argFiles = files
  /\ argSources = <<>>
  /\ argFile = 0
  /\ argList = <<>>
  /\ argAnns = <<>>
  /\ out = NoResult
  /\ reply = NoReply

InitCompress ==
  /\ PipelineIdle
  /\ StoreIdle
  /\ CompressorIdle
  /\ installed \in Installations

\* main/index.ts lines 206-210: the handler is invoked with a buffer and a
\* level.
Invoke(c) ==
  /\ calls[c].pc = "idle"
  /\ inproc.pc = "idle"
  /\ \E n \in Sizes, level \in CompressionLevels :
       calls' = [calls EXCEPT ![c] =
                   [IdleCall EXCEPT !.pc = "mkdtemp", !.bytes = File(c, n), !.level = level]]
  /\ UNCHANGED <<tmp, inproc, installed>>
  /\ UNCHANGED <<pvars, svars>>

\* line 214: tempDir = await mkdtemp(...)
Mkdtemp(c) ==
  /\ calls[c].pc = "mkdtemp"
  /\ \/ \E d \in mkdtemp(tmp) :
          /\ calls' = [calls EXCEPT ![c] =
                         [Did(@, "mkdtemp", d, TRUE) EXCEPT !.tempDir = d, !.pc = "writeFile"]]
          /\ tmp' = [tmp EXCEPT ![d] = IF @.exists THEN @ ELSE NewDirectory(c)]
     \/ /\ calls' = [calls EXCEPT ![c] =
                        caught(Did(@, "mkdtemp", NoDir, FALSE), "ENOSPC: mkdtemp")]
        /\ UNCHANGED tmp
  /\ UNCHANGED <<inproc, installed>>
  /\ UNCHANGED <<pvars, svars>>

\* line 219: await writeFile(inputPath, bytes); lines 223-241: the
\* quality setting and the arguments of the optimizer
WriteFile(c) ==
  LET d == calls[c].tempDir IN
  /\ calls[c].pc = "writeFile"
  /\ \/ /\ tmp[d].exists
        /\ calls' = [calls EXCEPT ![c] =
                        [Did(@, "writeFile", d, TRUE) EXCEPT
                           !.pc = "probe", !.pdfSetting = settingsMap(calls[c].level)]]
        /\ tmp' = [tmp EXCEPT ![d].input = calls[c].bytes.owner]
     \/ /\ calls' = [calls EXCEPT ![c] =
                        caught(Did(@, "writeFile", d, FALSE), "EIO: writeFile")]
        /\ UNCHANGED tmp
  /\ UNCHANGED <<inproc, installed>>
  /\ UNCHANGED <<pvars, svars>>

\* lines 252-260: one turn of the discovery loop:
\* await execFileAsync(path, ['--version'])
Probe(c) ==
  /\ calls[c].pc = "probe"
  /\ LET ok == gsPaths[calls[c].probeAt] \in installed
     IN calls' = [calls EXCEPT ![c] =
                    probed(Did(@, "probe", gsPaths[@.probeAt], ok), ok)]
  /\ UNCHANGED <<tmp, inproc, installed>>
  /\ UNCHANGED <<pvars, svars>>

\* line 263: await execFileAsync(gsPath, gsArgs).  The optimizer fails to
\* start or exits non-zero; where there is a binary it can also exit zero,
\* having written an output file of some length from the input file, or
\* without an output file.
RunGs(c) ==
  LET d == calls[c].tempDir
      ran(ok) == Did(calls[c], "gs", calls[c].gsPath, ok)
  IN
  /\ calls[c].pc = "gs"
  /\ \/ /\ calls' = [calls EXCEPT ![c] = caught(ran(FALSE), "Command failed: gs")]
        /\ UNCHANGED tmp
     \/ /\ calls[c].gsPath \in installed
        /\ tmp[d].exists /\ tmp[d].input # 0
        /\ \E m \in Sizes :
             tmp' = [tmp EXCEPT ![d].output = File(tmp[d].input, m)]
        /\ calls' = [calls EXCEPT ![c] = [ran(TRUE) EXCEPT !.pc = "readFile"]]
     \/ /\ calls[c].gsPath \in installed
        /\ calls' = [calls EXCEPT ![c] = [ran(TRUE) EXCEPT !.pc = "readFile"]]
        /\ UNCHANGED tmp
  /\ UNCHANGED <<inproc, installed>>
  /\ UNCHANGED <<pvars, svars>>

\* lines 266-277: await readFile(outputPath), then the success result
ReadFile(c) ==
  LET d == calls[c].tempDir IN
  /\ calls[c].pc = "readFile"
  /\ \/ /\ tmp[d].exists /\ tmp[d].output.present
        /\ calls' = [calls EXCEPT ![c] =
                        succeeded(Did(@, "readFile", d, TRUE), tmp[d].output)]
     \/ calls' = [calls EXCEPT ![c] =
                     caught(Did(@, "readFile", d, FALSE), "ENOENT: output.pdf")]
  /\ UNCHANGED <<tmp, inproc, installed>>
  /\ UNCHANGED <<pvars, svars>>

\* lines 287-296: await rm(tempDir, { recursive: true, force: true })
Cleanup(c) ==
  LET d == calls[c].tempDir IN
  /\ calls[c].pc = "rm"
  /\ \/ /\ calls' = [calls EXCEPT ![c] =
                        [Did(@, "rm", d, TRUE) EXCEPT !.pc = "returned",
                                                      !.outcome = "returned",
                                                      !.removed = tmp[d].creator]]
        /\ tmp' = [tmp EXCEPT ![d] = NoDirectory]
     \/ /\ calls' = [calls EXCEPT ![c] = rmFailed(Did(@, "rm", d, FALSE))]
        /\ UNCHANGED tmp
  /\ UNCHANGED <<inproc, installed>>
  /\ UNCHANGED <<pvars, svars>>

\* The handler's promise settles and the renderer takes the result.
Deliver(c) ==
  /\ calls[c].pc = "returned"
  /\ calls' = [calls EXCEPT ![c] = IdleCall]
  /\ UNCHANGED <<tmp, inproc, installed>>
  /\ UNCHANGED <<pvars, svars>>

\* pdf-operations.ts lines 291-354: a call of the in-process compressPdf
Compress ==
  /\ inproc.pc = "idle"
  /\ \A c \in CallIds : calls[c].pc = "idle"
  /\ \E doc \in CompressInputs, level \in CompressionLevels, savedSize \in Sizes \ {0} :
       inproc' = compressPdf(doc, level, savedSize)
  /\ UNCHANGED <<calls, tmp, installed>>
  /\ UNCHANGED <<pvars, svars>>

CompressReturn ==
  /\ inproc.pc = "returned"
  /\ inproc' = IdleCompress
  /\ UNCHANGED <<calls, tmp, installed>>
  /\ UNCHANGED <<pvars, svars>>

NextCompress ==
  \/ Invoke(1)
  \/ \E c \in CallIds : Mkdtemp(c)
  \/ \E c \in CallIds : WriteFile(c)
  \/ \E c \in CallIds : Probe(c)
  \/ \E c \in CallIds : RunGs(c)
  \/ \E c \in CallIds : ReadFile(c)
  \/ \E c \in CallIds : Cleanup(c)
  \/ \E c \in CallIds : Deliver(c)
  \/ Compress
  \/ CompressReturn

SpecCompress == InitCompress /\ [][NextCompress]_vars

\* Two invocations in flight at once, each with a large buffer at the
\* strongest level, on a machine with one binary.
InitConcurrent ==
  /\ PipelineIdle
  /\ StoreIdle
  /\ CompressorIdle
  /\ installed = {gsPaths[3]}

InvokeLarge(c) ==
  /\ Invoke(c)
  /\ calls'[c].bytes.size = 8
  /\ calls'[c].level = 75

NextConcurrent ==
  \/ \E c \in CallIds : InvokeLarge(c)
  \/ \E c \in CallIds : Mkdtemp(c)
  \/ \E c \in CallIds : WriteFile(c)
  \/ \E c \in CallIds : Probe(c)
  \/ \E c \in CallIds : RunGs(c)
  \/ \E c \in CallIds : ReadFile(c)
  \/ \E c \in CallIds : Cleanup(c)
  \/ \E c \in CallIds : Deliver(c)

SpecConcurrent == InitConcurrent /\ [][NextConcurrent]_vars

(* ------------------------------ merge panel ----------------------------- *)

editorVars == <<currentPdf, storeAnnotations, currentTool, currentPage, thumbnails, drawing>>

mergeVars == <<mergeSources, mergePages, ids>>

\* The operations of the pipeline at rest, whatever the files are.
OperationsIdle ==
  /\ heap = <<>>
  /\ op = "idle"
  /\ argFiles = files
  /\ argSources = <<>>
  /\ argFile = 0
  /\ argList = <<>>
  /\ argAnns = <<>>
  /\ out = NoResult
  /\ reply = NoReply

\* The files the user can add to the merge panel: one of two pages, and
\* one of one page or one that is no PDF.
InitMerge ==
  /\ \E second \in {PdfBytes(2, 1), JunkBytes} :
       files = (1 :> PdfBytes(1, 2)) @@ (2 :> second)
  /\ OperationsIdle
  /\ CompressorIdle
  /\ installed = {}
  /\ StoreIdle

\* The answer of an IPC call of the renderer: the handler's reply to the
\* operation's result.
invoke(name, r) == handle(name, r.result)

\* part_002 lines 307-333 (and 279-305 for a dropped file), for one file:
\* getPdfInfo, then addMergeSource with all pages selected.
AddFiles(f) ==
  LET infoResult == invoke("loadPdfInfo", loadPdfInfo(EmptyHeap(files), f))
      pageCount == infoResult.data.pageCount
      source == [id |-> generateId(ids), file |-> f, pageCount |-> pageCount,
                 selectedPages |-> [k \in 1..pageCount |-> k - 1]]
      added == addMergeSource(mergeSources, mergePages, source, ids + 1)
  IN /\ Len(mergeSources) < MaxSources
     /\ IF infoResult.success
        THEN /\ ids + 1 + pageCount <= MaxIds
             /\ mergeSources' = added.mergeSources
             /\ mergePages' = added.mergePages
             /\ ids' = ids + 1 + pageCount
        ELSE UNCHANGED mergeVars
     /\ UNCHANGED <<isLoading, storeError, running, disk>>
     /\ UNCHANGED <<pvars, cvars, editorVars>>

\* part_002 line 371: the remove button of a source
RemoveSource(i) ==
  LET removed == removeMergeSource(mergeSources, mergePages, mergeSources[i].id)
  IN /\ i \in 1..Len(mergeSources)
     /\ mergeSources' = removed.mergeSources
     /\ mergePages' = removed.mergePages
     /\ UNCHANGED <<ids, isLoading, storeError, running, disk>>
     /\ UNCHANGED <<pvars, cvars, editorVars>>

\* part_002 lines 237-245: handleDragEnd with the dragged page at position
\* from and the page it is dropped on at position to; store lines 258-260
DragEnd(from, to) ==
  /\ from \in 1..Len(mergePages)
  /\ to \in 1..Len(mergePages)
  /\ mergePages[from].id # mergePages[to].id
  /\ mergePages' = arrayMove(mergePages, from, to)
  /\ UNCHANGED <<mergeSources, ids, isLoading, storeError, running, disk>>
  /\ UNCHANGED <<pvars, cvars, editorVars>>

\* part_002 lines 262-271: a thumbnail of generateThumbnails is ready for
\* page i of a source. The map changes no entry when the page has left the
\* list, so the pages it can change are those of the list.
ThumbnailReady(k) ==
  /\ k \in 1..Len(mergePages)
  /\ mergePages' = withThumbnail(mergePages, mergePages[k].sourceId, mergePages[k].pageIndex)
  /\ UNCHANGED <<mergeSources, ids, isLoading, storeError, running, disk>>
  /\ UNCHANGED <<pvars, cvars, editorVars>>

\* store lines 300-302
ClearMerge ==
  /\ mergeSources' = <<>>
  /\ mergePages' = <<>>
  /\ UNCHANGED <<ids, isLoading, storeError, running, disk>>
  /\ UNCHANGED <<pvars, cvars, editorVars>>

\* store lines 263-278: executeMerge up to the call of mergePdfs; the merge
\* button is enabled with pages and without loading (part_002 line 423).
MergeStart ==
  /\ running["executeMerge"].pc = "idle"
  /\ ~isLoading
  /\ mergePages # <<>>
  /\ mergeSources # <<>>
  /\ isLoading' = TRUE
  /\ storeError' = NoError
  /\ running' = [running EXCEPT !["executeMerge"] =
                   [IdleRun EXCEPT !.pc = "mergePdfs",
                                   !.list = orderedSources(mergeSources, mergePages),
                                   !.shown = displayed(mergePages)]]
  /\ UNCHANGED <<mergeVars, disk>>
  /\ UNCHANGED <<pvars, cvars, editorVars>>

\* store lines 278-283, 291-296: the answer of 'pdf:merge'
MergeAnswered ==
  LET run == running["executeMerge"]
      result == invoke("mergePdfs", mergePdfs(EmptyHeap(files), run.list))
  IN /\ run.pc = "mergePdfs"
     /\ IF result.success /\ result.data # NoBytes
        THEN /\ running' = [running EXCEPT !["executeMerge"] =
                              [run EXCEPT !.pc = "savePdfDialog", !.bytes = result.data]]
             /\ UNCHANGED <<isLoading, storeError>>
        ELSE /\ running' = [running EXCEPT !["executeMerge"] = IdleRun]
             /\ isLoading' = FALSE
             /\ storeError' = IF result.error # "" THEN result.error ELSE "Merge failed"
     /\ UNCHANGED <<mergeVars, disk>>
     /\ UNCHANGED <<pvars, cvars, editorVars>>

\* store lines 285-290: the save dialog is cancelled, or closed with a path
MergeDialogClosed ==
  LET run == running["executeMerge"]
  IN /\ run.pc = "savePdfDialog"
     /\ \/ /\ running' = [running EXCEPT !["executeMerge"] = IdleRun]
           /\ isLoading' = FALSE
        \/ /\ running' = [running EXCEPT !["executeMerge"] = [run EXCEPT !.pc = "writePdf"]]
           /\ UNCHANGED isLoading
     /\ UNCHANGED <<mergeVars, storeError, disk>>
     /\ UNCHANGED <<pvars, cvars, editorVars>>

\* store lines 287-290: writePdf answers; its answer is not inspected
MergeWritten ==
  LET run == running["executeMerge"]
  IN /\ run.pc = "writePdf"
     /\ \/ disk' = <<[by |-> "executeMerge", bytes |-> run.bytes]>>
        \/ UNCHANGED disk
     /\ running' = [running EXCEPT !["executeMerge"] = IdleRun]
     /\ isLoading' = FALSE
     /\ UNCHANGED <<mergeVars, storeError>>
     /\ UNCHANGED <<pvars, cvars, editorVars>>

NextMerge ==
  \/ \E f \in FileIds : AddFiles(f)
  \/ \E i \in 1..MaxSources : RemoveSource(i)
  \/ \E from, to \in 1..MaxIds : DragEnd(from, to)
  \/ \E k \in 1..MaxIds : ThumbnailReady(k)
  \/ ClearMerge
  \/ MergeStart
  \/ MergeAnswered
  \/ MergeDialogClosed
  \/ MergeWritten

SpecMerge == InitMerge /\ [][NextMerge]_vars

(* --------------------------- annotation layer --------------------------- *)

\* A document of two pages is open and shown with the annotation layer
\* over its page.
InitDraw ==
  /\ files = (1 :> PdfBytes(1, 2)) @@ (2 :> JunkBytes)
  /\ OperationsIdle
  /\ CompressorIdle
  /\ installed = {}
  /\ currentPdf = OpenPdf(1, PdfBytes(1, 2), 2)
  /\ storeAnnotations = <<>>
  /\ currentTool = Tool("select")
  /\ currentPage = 0
  /\ thumbnails = 0
  /\ mergeSources = <<>>
  /\ mergePages = <<>>
  /\ isLoading = FALSE
  /\ storeError = NoError
  /\ ids = 0
  /\ drawing = NotDrawing
  /\ running = [a \in StoreActions |-> IdleRun]
  /\ disk = <<>>

asyncVars == <<isLoading, storeError, running, disk>>

\* part_001 lines 119-126, onMouseDown
MouseDown(coords) ==
  /\ currentPdf.open
  /\ Len(storeAnnotations) < MaxAnns
  /\ ids < MaxIds
  /\ drawing' = handleMouseDown(drawing, currentTool, coords)
  /\ UNCHANGED <<currentPdf, storeAnnotations, currentTool, currentPage, thumbnails>>
  /\ UNCHANGED <<pvars, cvars, mergeVars, asyncVars>>

\* part_001 lines 128-138, onMouseMove
MouseMove(coords) ==
  /\ currentPdf.open
  /\ drawing' = handleMouseMove(drawing, coords)
  /\ UNCHANGED <<currentPdf, storeAnnotations, currentTool, currentPage, thumbnails>>
  /\ UNCHANGED <<pvars, cvars, mergeVars, asyncVars>>

\* part_001 lines 140-160, onMouseUp and onMouseLeave (line 169)
MouseUp ==
  /\ currentPdf.open
  /\ IF rectAccepted(drawing)
     THEN /\ storeAnnotations' =
               Append(storeAnnotations,
                      newAnnotation(currentTool, currentPage, drawing.currentRect[1], ids))
          /\ ids' = ids + 1
     ELSE UNCHANGED <<storeAnnotations, ids>>
  /\ drawing' = NotDrawing
  /\ UNCHANGED <<currentPdf, currentTool, currentPage, thumbnails>>
  /\ UNCHANGED <<pvars, cvars, mergeSources, mergePages, asyncVars>>

\* store lines 186-188, from a tool button of the toolbar (part_002 lines
\* 116-148); the buttons are enabled at all times.
SetCurrentTool(tool) ==
  /\ currentTool' = tool
  /\ UNCHANGED <<currentPdf, storeAnnotations, currentPage, thumbnails, drawing>>
  /\ UNCHANGED <<pvars, cvars, mergeVars, asyncVars>>

NextDraw ==
  \/ \E coords \in Points : MouseDown(coords)
  \/ \E coords \in Points : MouseMove(coords)
  \/ MouseUp
  \/ \E tool \in Tools : SetCurrentTool(tool)

SpecDraw == InitDraw /\ [][NextDraw]_vars

(* ---------------------------- save and compress ------------------------- *)

\* The number of files written in a behaviour
MaxWrites == 2

InitSave == InitDraw

\* A file written by writePdf, with what the action that wrote it had read
\* from the store.
Written(by, run) ==
  [by |-> by, path |-> run.path, list |-> run.list, applied |-> run.applied,
   bytes |-> run.toSave]

\* store lines 139-144: savePdf up to the save dialog; the Save button is
\* enabled with a document open (part_002 lines 60-65).
SaveStart ==
  /\ currentPdf.open
  /\ running["savePdf"].pc = "idle"
  /\ Len(disk) < MaxWrites
  /\ isLoading' = TRUE
  /\ storeError' = NoError
  /\ running' = [running EXCEPT !["savePdf"] =
                   [IdleRun EXCEPT !.pc = "savePdfDialog", !.path = currentPdf.path,
                                   !.bytes = currentPdf.bytes, !.list = storeAnnotations,
                                   !.toSave = currentPdf.bytes]]
  /\ UNCHANGED disk
  /\ UNCHANGED <<pvars, cvars, editorVars, mergeVars>>

\* store lines 146-153: the dialog is cancelled, or closed with a path
SaveDialogClosed ==
  LET run == running["savePdf"]
  IN /\ run.pc = "savePdfDialog"
     /\ \/ /\ running' = [running EXCEPT !["savePdf"] = IdleRun]
           /\ isLoading' = FALSE
        \/ /\ running' = [running EXCEPT !["savePdf"] =
                            [run EXCEPT !.pc = IF Len(run.list) > 0
                                               THEN "applyAnnotations" ELSE "writePdf"]]
           /\ UNCHANGED isLoading
     /\ UNCHANGED <<storeError, disk>>
     /\ UNCHANGED <<pvars, cvars, editorVars, mergeVars>>

\* store lines 154-161: the answer of 'pdf:applyAnnotations', which is the
\* document with the annotations, or a failure when the operation threw
\* in the main process (main/index.ts lines 137-152).
SaveApplied ==
  LET run == running["savePdf"]
  IN /\ run.pc = "applyAnnotations"
     /\ \E annotatedResult \in
            {invoke("applyAnnotations", applyAnnotations(EmptyHeap(<<run.bytes>>), 1, run.list)),
             Resolved(FALSE, NoBytes, "Failed to apply annotations")} :
          running' = [running EXCEPT !["savePdf"] =
                        [run EXCEPT !.pc = "writePdf",
                                    !.toSave = bytesToSave(run.bytes, annotatedResult),
                                    !.applied = IF annotatedResult.success
                                                THEN "applied" ELSE "failed"]]
     /\ UNCHANGED <<isLoading, storeError, disk>>
     /\ UNCHANGED <<pvars, cvars, editorVars, mergeVars>>

\* store lines 164-166: writePdf answers, its answer is not inspected
SaveWritten ==
  LET run == running["savePdf"]
  IN /\ run.pc = "writePdf"
     /\ \/ disk' = Append(disk, Written("savePdf", run))
        \/ UNCHANGED disk
     /\ running' = [running EXCEPT !["savePdf"] = IdleRun]
     /\ currentPdf' = IF currentPdf.open THEN saveDone(currentPdf, run.toSave) ELSE currentPdf
     /\ isLoading' = FALSE
     /\ UNCHANGED <<storeAnnotations, currentTool, currentPage, thumbnails, drawing>>
     /\ UNCHANGED <<pvars, cvars, mergeVars, storeError>>

\* store lines 305-312: compressPdf up to the call of 'pdf:compress'; the
\* Compress button is disabled while loading (part_002 line 79).
CompressStart ==
  /\ currentPdf.open
  /\ ~isLoading
  /\ running["compressPdf"].pc = "idle"
  /\ Len(disk) < MaxWrites
  /\ isLoading' = TRUE
  /\ storeError' = NoError
  /\ running' = [running EXCEPT !["compressPdf"] =
                   [IdleRun EXCEPT !.pc = "compressPdf", !.path = currentPdf.path,
                                   !.bytes = currentPdf.bytes]]
  /\ UNCHANGED disk
  /\ UNCHANGED <<pvars, cvars, editorVars, mergeVars>>

\* store lines 312-316, 328-333: the answer of 'pdf:compress', a document
\* of the same pages or a failure
CompressAnswered ==
  LET run == running["compressPdf"]
  IN /\ run.pc = "compressPdf"
     /\ \/ /\ running' = [running EXCEPT !["compressPdf"] =
                            [run EXCEPT !.pc = "savePdfDialog", !.toSave = run.bytes]]
           /\ UNCHANGED <<isLoading, storeError>>
        \/ /\ running' = [running EXCEPT !["compressPdf"] = IdleRun]
           /\ isLoading' = FALSE
           /\ storeError' = "Compression failed"
     /\ UNCHANGED disk
     /\ UNCHANGED <<pvars, cvars, editorVars, mergeVars>>

\* store lines 319-327: the dialog is cancelled, or closed with a path and
\* the file written
CompressDialogClosed ==
  LET run == running["compressPdf"]
  IN /\ run.pc = "savePdfDialog"
     /\ \/ /\ running' = [running EXCEPT !["compressPdf"] = IdleRun]
           /\ isLoading' = FALSE
        \/ /\ running' = [running EXCEPT !["compressPdf"] = [run EXCEPT !.pc = "writePdf"]]
           /\ UNCHANGED isLoading
     /\ UNCHANGED <<storeError, disk>>
     /\ UNCHANGED <<pvars, cvars, editorVars, mergeVars>>

\* store lines 321-327
CompressWritten ==
  LET run == running["compressPdf"]
  IN /\ run.pc = "writePdf"
     /\ \/ disk' = Append(disk, Written("compressPdf", run))
        \/ UNCHANGED disk
     /\ running' = [running EXCEPT !["compressPdf"] = IdleRun]
     /\ isLoading' = FALSE
     /\ UNCHANGED storeError
     /\ UNCHANGED <<pvars, cvars, editorVars, mergeVars>>

\* One drag over the page: from the corner to a point the rect of which is
\* large enough.
DragFrom == [x |-> 0, y |-> 0]

DragTo == [x |-> 10, y |-> 10]

NextSave ==
  \/ SetCurrentTool(Tool("highlight"))
  \/ MouseDown(DragFrom)
  \/ MouseMove(DragTo)
  \/ MouseUp
  \/ SaveStart
  \/ SaveDialogClosed
  \/ SaveApplied
  \/ SaveWritten
  \/ CompressStart
  \/ CompressAnswered
  \/ CompressDialogClosed
  \/ CompressWritten

SpecSave == InitSave /\ [][NextSave]_vars

(* ------------------------------ open and view --------------------------- *)

InitEditor == InitMerge

OpenRun == running["openPdf"]

\* store lines 93-97: openPdf up to the open dialog; the Open button is
\* enabled at all times (part_002 line 54).
OpenStart ==
  /\ OpenRun.pc = "idle"
  /\ isLoading' = TRUE
  /\ storeError' = NoError
  /\ running' = [running EXCEPT !["openPdf"] = [IdleRun EXCEPT !.pc = "openPdfDialog"]]
  /\ UNCHANGED disk
  /\ UNCHANGED <<pvars, cvars, editorVars, mergeVars>>

\* store lines 97-103: the dialog is cancelled, or closed with a file
OpenDialogClosed ==
  /\ OpenRun.pc = "openPdfDialog"
  /\ \/ /\ running' = [running EXCEPT !["openPdf"] = IdleRun]
        /\ isLoading' = FALSE
     \/ /\ \E f \in FileIds :
             running' = [running EXCEPT !["openPdf"] =
                           [OpenRun EXCEPT !.pc = "readPdf", !.path = f]]
        /\ UNCHANGED isLoading
  /\ UNCHANGED <<storeError, disk>>
  /\ UNCHANGED <<pvars, cvars, editorVars, mergeVars>>

\* store lines 104-110, 129-134: the answer of 'pdf:read'
OpenRead ==
  /\ OpenRun.pc = "readPdf"
  /\ \E found \in BOOLEAN :
       LET readResult == invoke("readFile", readFile(EmptyHeap(files), OpenRun.path, found))
       IN IF readResult.success /\ readResult.data # NoBytes
          THEN /\ running' = [running EXCEPT !["openPdf"] =
                                [OpenRun EXCEPT !.pc = "getPdfInfo", !.bytes = readResult.data]]
               /\ UNCHANGED <<isLoading, storeError>>
          ELSE /\ running' = [running EXCEPT !["openPdf"] = IdleRun]
               /\ isLoading' = FALSE
               /\ storeError' = IF readResult.error # "" THEN readResult.error
                                 ELSE "Failed to read PDF"
  /\ UNCHANGED disk
  /\ UNCHANGED <<pvars, cvars, editorVars, mergeVars>>

\* store lines 110-134: the answer of 'pdf:getInfo' and the state update:
\* the document, no annotations, the first page; the thumbnails are not
\* part of the update.
OpenInfo ==
  LET infoResult == invoke("loadPdfInfo", loadPdfInfo(EmptyHeap(<<OpenRun.bytes>>), 1))
  IN /\ OpenRun.pc = "getPdfInfo"
     /\ running' = [running EXCEPT !["openPdf"] = IdleRun]
     /\ isLoading' = FALSE
     /\ IF infoResult.success /\ infoResult.data # NoBytes
        THEN /\ currentPdf' = OpenPdf(OpenRun.path, OpenRun.bytes, infoResult.data.pageCount)
             /\ storeAnnotations' = <<>>
             /\ currentPage' = 0
             /\ UNCHANGED storeError
        ELSE /\ storeError' = IF infoResult.error # "" THEN infoResult.error
                               ELSE "Failed to get PDF info"
             /\ UNCHANGED <<currentPdf, storeAnnotations, currentPage>>
     /\ UNCHANGED <<currentTool, thumbnails, drawing, disk>>
     /\ UNCHANGED <<pvars, cvars, mergeVars>>

\* store lines 176-183
ClosePdf ==
  /\ currentPdf' = NoPdf
  /\ storeAnnotations' = <<>>
  /\ thumbnails' = 0
  /\ currentPage' = 0
  /\ UNCHANGED <<currentTool, drawing>>
  /\ UNCHANGED <<pvars, cvars, mergeVars, asyncVars>>

\* SortablePageItem.tsx lines 103-147 (PdfCanvas) and store lines 228-230:
\* the pages of the document shown are rendered and setThumbnails stores
\* one thumbnail per page.
SetThumbnails ==
  /\ currentPdf.open
  /\ thumbnails' = Len(currentPdf.bytes.body)
  /\ UNCHANGED <<currentPdf, storeAnnotations, currentTool, currentPage, drawing>>
  /\ UNCHANGED <<pvars, cvars, mergeVars, asyncVars>>

\* Sidebar.tsx lines 29-52: the entries of the sidebar, one per thumbnail,
\* or one per page when there are no thumbnails
sidebarEntries(pdf, count) == IF count > 0 THEN count ELSE pdf.pageCount

\* Sidebar.tsx lines 34 and 45, store lines 191-195: a click on entry index
SidebarClick(index) ==
  /\ currentPdf.open
  /\ index < sidebarEntries(currentPdf, thumbnails)
  /\ currentPage' = index
  /\ UNCHANGED <<currentPdf, storeAnnotations, currentTool, thumbnails, drawing>>
  /\ UNCHANGED <<pvars, cvars, mergeVars, asyncVars>>

NextEditor ==
  \/ OpenStart
  \/ OpenDialogClosed
  \/ OpenRead
  \/ OpenInfo
  \/ ClosePdf
  \/ SetThumbnails
  \/ \E index \in 0..MaxPages : SidebarClick(index)
  \/ SetCurrentTool(Tool("highlight"))
  \/ MouseDown(DragFrom)
  \/ MouseMove(DragTo)
  \/ MouseUp

SpecEditor == InitEditor /\ [][NextEditor]_vars

(* ------------------------------- claims --------------------------------- *)

\* The pages of input file f as the caller handed them in.
PagesOf(f) == argFiles[f].body

Loadable(f) == argFiles[f].header = "%PDF"

InRange(f, list) ==
  \A k \in 1..Len(list) : list[k] >= 0 /\ list[k] < Len(PagesOf(f))

\* The pages of f at the indices of list, in list order.
Selected(f, list) == [k \in 1..Len(list) |-> PagesOf(f)[list[k] + 1]]

\* The pages of a document that come from an input file (the blank page
\* addPage() creates comes from none).
SourcePages(pages) == SelectSeq(pages, LAMBDA p : p.file # NoFile)

PageSet(pages) == {pages[k] : k \in 1..Len(pages)}

AllExplicit(sources) ==
  \A i \in 1..Len(sources) :
    /\ Loadable(sources[i].file)
    /\ sources[i].selectedPages # <<>>
    /\ InRange(sources[i].file, sources[i].selectedPages)

ExplicitPages(sources) ==
  Concat([i \in 1..Len(sources) |->
            Selected(sources[i].file, sources[i].selectedPages)], 1)

\* C1 as stated: for every list of merge sources with non-empty in-range
\* selections, a successful mergePdfs yields as many pages as the selections
\* hold, the concatenation of the selections in source order.
C1_MergeAnySourceList ==
  (op = "mergePdfs" /\ out.success /\ AllExplicit(argSources)) =>
    /\ Len(out.bytes.body) =
         Sum([i \in 1..Len(argSources) |-> Len(argSources[i].selectedPages)], 1)
    /\ out.bytes.body = ExplicitPages(argSources)

\* C1 amended: the same for every non-empty list of merge sources; merging
\* the empty list of sources succeeds with one blank default page.
C1_MergeConcatenatesSelections ==
  (op = "mergePdfs" /\ out.success /\ AllExplicit(argSources)) =>
    /\ Len(argSources) > 0 =>
         /\ Len(out.bytes.body) =
              Sum([i \in 1..Len(argSources) |-> Len(argSources[i].selectedPages)], 1)
         /\ out.bytes.body = ExplicitPages(argSources)
    /\ Len(argSources) = 0 => out.bytes.body = <<DefaultPage>>

C1_Witness ==
  /\ op = "mergePdfs" /\ out.success
  /\ Len(argSources) = 2
  /\ argSources[1] = [file |-> 1, selectedPages |-> <<2, 0>>]
  /\ argSources[2] = [file |-> 2, selectedPages |-> <<1>>]
  /\ [k \in 1..Len(out.bytes.body) |-> <<out.bytes.body[k].file, out.bytes.body[k].index>>]
       = <<<<1, 2>>, <<1, 0>>, <<2, 1>>>>

\* What source i of a merge contributes: its selection, or all its pages.
Contribution(source) ==
  IF source.selectedPages # <<>> THEN Selected(source.file, source.selectedPages)
  ELSE PagesOf(source.file)

\* C2: in a successful merge a source whose selectedPages is empty
\* contributes all its pages in ascending order at its position: the pages
\* the output takes from the sources are the concatenation, in source
\* order, of each source's contribution.
C2_EmptySelectionMeansAllPages ==
  (op = "mergePdfs" /\ out.success
     /\ \E i \in 1..Len(argSources) : argSources[i].selectedPages = <<>>) =>
    SourcePages(out.bytes.body) =
      Concat([i \in 1..Len(argSources) |-> Contribution(argSources[i])], 1)

C2_Witness ==
  /\ op = "mergePdfs" /\ out.success
  /\ Len(argSources) = 2
  /\ argSources[1] = [file |-> 2, selectedPages |-> <<1>>]
  /\ argSources[2] = [file |-> 1, selectedPages |-> <<>>]
  /\ [k \in 1..Len(out.bytes.body) |-> <<out.bytes.body[k].file, out.bytes.body[k].index>>]
       = <<<<2, 1>>, <<1, 0>>, <<1, 1>>, <<1, 2>>>>

\* C3 as stated: for every in-range order list reorderPages returns a
\* document of exactly len(order) pages, page i being source page order[i].
C3_ReorderAnyList ==
  (op = "reorderPages" /\ Loadable(argFile) /\ InRange(argFile, argList)) =>
    /\ out.outcome = "returned"
    /\ Len(out.bytes.body) = Len(argList)
    /\ out.bytes.body = Selected(argFile, argList)

\* C3 amended: the same for every non-empty in-range order list, permutation
\* or not; the empty list returns a document of one blank default page.
C3_ReorderFollowsOrder ==
  (op = "reorderPages" /\ Loadable(argFile) /\ InRange(argFile, argList)) =>
    /\ out.outcome = "returned"
    /\ argList # <<>> =>
         /\ Len(out.bytes.body) = Len(argList)
         /\ out.bytes.body = Selected(argFile, argList)
    /\ argList = <<>> => out.bytes.body = <<DefaultPage>>

C3_Witness ==
  /\ op = "reorderPages" /\ out.outcome = "returned"
  /\ Len(PagesOf(argFile)) = 3
  /\ argList = <<2, 0, 1>>
  /\ [k \in 1..Len(out.bytes.body) |-> out.bytes.body[k].index] = <<2, 0, 1>>

\* A valid index set: duplicate-free, every entry a page index.
ValidIndexSet(f, list) ==
  /\ InRange(f, list)
  /\ \A j, k \in 1..Len(list) : j # k => list[j] # list[k]

\* C4: for a valid index set S the source pages of deletePages(doc, S) and
\* of extractPages(doc, S) are disjoint and together are the pages of doc.
C4_DeleteExtractPartition ==
  (op = "deletePages" /\ Loadable(argFile) /\ ValidIndexSet(argFile, argList)) =>
    LET deleted == PageSet(SourcePages(out.bytes.body))
        extracted == PageSet(SourcePages(
          extractPages(EmptyHeap(argFiles), argFile, argList).result.bytes.body))
    IN /\ out.outcome = "returned"
       /\ deleted \cap extracted = {}
       /\ deleted \cup extracted = PageSet(PagesOf(argFile))

C4_Witness ==
  /\ op = "deletePages" /\ out.outcome = "returned"
  /\ Len(PagesOf(argFile)) = 3
  /\ argList = <<2, 0>>
  /\ [k \in 1..Len(out.bytes.body) |-> out.bytes.body[k].index] = <<1>>

\* The pages of f whose index the list does not hold, ascending.
Kept(f, list) ==
  SelectSeq(PagesOf(f), LAMBDA p : \A k \in 1..Len(list) : list[k] # p.index)

\* C5: deletePages returns the pages whose index is not in the list, once
\* each and ascending, whatever the list's order; duplicated and
\* out-of-range entries change nothing and raise no error; deleting every
\* index leaves no page of the source.
C5_DeleteKeepsComplement ==
  (op = "deletePages" /\ Loadable(argFile)) =>
    /\ out.outcome = "returned"
    /\ Kept(argFile, argList) # <<>> => out.bytes.body = Kept(argFile, argList)
    /\ Kept(argFile, argList) = <<>> => SourcePages(out.bytes.body) = <<>>

C5_Witness ==
  /\ op = "deletePages" /\ out.outcome = "returned"
  /\ Len(PagesOf(argFile)) = 3
  /\ argList = <<2, -1, 2>>
  /\ [k \in 1..Len(out.bytes.body) |-> out.bytes.body[k].index] = <<0, 1>>

OutOfRange(f, list) == ~InRange(f, list)

\* C6: an index outside [0, pageCount) in a selection makes the whole
\* operation fail without bytes: reorderPages and extractPages throw,
\* mergePdfs returns success = false with an error and no bytes, also when
\* earlier sources were copied.
C6_OutOfRangeFailsWhole ==
  /\ (op \in {"reorderPages", "extractPages"} /\ OutOfRange(argFile, argList)) =>
       (out.outcome = "threw" /\ out.bytes = NoBytes)
  /\ (op = "mergePdfs" /\ \E i \in 1..Len(argSources) :
         OutOfRange(argSources[i].file, argSources[i].selectedPages)) =>
       /\ out.outcome = "returned"
       /\ ~out.success
       /\ out.error # ""
       /\ out.bytes = NoBytes

\* A merge whose first source was copied into the destination before the
\* second source's index failed.
C6_Witness ==
  /\ op = "mergePdfs"
  /\ Len(argSources) = 2
  /\ Loadable(1) /\ Loadable(2)
  /\ InRange(argSources[1].file, argSources[1].selectedPages)
  /\ Len(argSources[1].selectedPages) = 1
  /\ argSources[2].selectedPages = <<0, MaxPages>>
  /\ Len(heap) = 3 /\ Len(heap[1].pages) = 1
  /\ ~out.success /\ out.bytes = NoBytes

PageSetOps == {"mergePdfs", "reorderPages", "extractPages", "deletePages"}

\* C7: a page set operation builds its result in a newly created document
\* and leaves the input buffers and the loaded source documents' page
\* sequences as they were, on success and on failure.
C7_SourcesUntouched ==
  op \in PageSetOps =>
    /\ files = argFiles
    /\ \A d \in 1..Len(heap) :
         heap[d].from # NoFile => heap[d].pages = PagesOf(heap[d].from)
    /\ (out.outcome = "returned" /\ out.success) =>
         \E d \in 1..Len(heap) :
           /\ heap[d].from = NoFile
           /\ out.bytes.body = heap[d].pages
           /\ \A e \in 1..Len(heap) : heap[e].from = NoFile => e = d

C7_Witness ==
  /\ op = "mergePdfs" /\ out.success
  /\ Len(argSources) = 2
  /\ argSources[1].file = argSources[2].file
  /\ argSources[1].selectedPages = <<1, 0>>
  /\ Len(heap) = 3
  /\ Len(heap[2].pages) = 3 /\ heap[2].pages = heap[3].pages

\* Annotations that draw something: the five baked types, text only with
\* content.
Draws(a) ==
  \/ a.type \in {"highlight", "underline", "strikeout", "rectangle"}
  \/ a.type = "text" /\ a.content # ""

OnPage(f, a) == a.pageIndex >= 0 /\ a.pageIndex < Len(PagesOf(f))

\* The annotations of the list that draw on page index i of file f.
DrawnOn(f, annotations, i) ==
  SelectSeq(annotations, LAMBDA a : OnPage(f, a) /\ a.pageIndex = i /\ Draws(a))

\* C8: an annotation whose pageIndex is no page of the document raises no
\* error and adds no drawing operation to any page, and every other
\* annotation is still drawn on its own page: the result is that of the
\* list without the stray annotations, and page i carries one operation
\* per drawing annotation that targets it.
C8_StrayAnnotationSkipped ==
  (op = "applyAnnotations" /\ Loadable(argFile)
     /\ \E k \in 1..Len(argAnns) : ~OnPage(argFile, argAnns[k])) =>
    /\ out.outcome = "returned"
    /\ out = applyAnnotations(EmptyHeap(argFiles), argFile,
                SelectSeq(argAnns, LAMBDA a : OnPage(argFile, a))).result
    /\ \A k \in 1..Len(out.bytes.body) :
         Len(out.bytes.body[k].content) = Len(DrawnOn(argFile, argAnns, k - 1))

C8_Witness ==
  /\ op = "applyAnnotations" /\ out.outcome = "returned"
  /\ Len(PagesOf(argFile)) = 2
  /\ Len(argAnns) = 2
  /\ argAnns[1].pageIndex >= Len(PagesOf(argFile)) /\ argAnns[1].type = "highlight"
  /\ argAnns[2].pageIndex = 1 /\ argAnns[2].type = "underline"
  /\ out.bytes.body[1].content = <<>>
  /\ Len(out.bytes.body[2].content) = 1

\* C9 as stated: applyAnnotations with an empty list leaves the page count
\* and every page's width, height, rotation and content as they were.
C9_NoAnnotationsNoChange ==
  (op = "applyAnnotations" /\ Loadable(argFile) /\ argAnns = <<>>) =>
    /\ out.outcome = "returned"
    /\ Len(out.bytes.body) = Len(PagesOf(argFile))
    /\ out.bytes.body = PagesOf(argFile)

\* The document-space y, in half points, the claim gives for annotation a
\* on a page of height H.
ClaimedY2(a, H) ==
  IF a.type = "strikeout" THEN 2 * H - 2 * a.rect.y - a.rect.height
  ELSE 2 * (H - a.rect.y - a.rect.height)

\* C10: every drawn annotation on a page of height H has x = rect.x and
\* y = H - rect.y - rect.height (highlight, rectangle, text, underline) or
\* y = H - rect.y - rect.height / 2 (strikeout).
C10_DocumentSpaceY ==
  (op = "applyAnnotations" /\ out.outcome = "returned") =>
    \A k \in 1..Len(out.bytes.body) :
      LET page == out.bytes.body[k]
          drawn == DrawnOn(argFile, argAnns, k - 1)
      IN /\ Len(page.content) = Len(drawn)
         /\ \A j \in 1..Len(drawn) :
              /\ page.content[j].x = drawn[j].rect.x
              /\ page.content[j].y2 = ClaimedY2(drawn[j], page.height)

\* The rectangle {x:10, y:20, width:100, height:30} highlighted and struck
\* out on a page of height 792: bottom edge 742, midpoint 757.
C10_Witness ==
  /\ op = "applyAnnotations" /\ out.outcome = "returned"
  /\ Len(argAnns) = 2
  /\ argAnns[1].type = "highlight" /\ argAnns[2].type = "strikeout"
  /\ argAnns[1].pageIndex = 0 /\ argAnns[2].pageIndex = 0
  /\ argAnns[1].rect = [x |-> 10, y |-> 20, width |-> 100, height |-> 30]
  /\ argAnns[2].rect = argAnns[1].rect
  /\ out.bytes.body[1].height = 792
  /\ Len(out.bytes.body[1].content) = 2
  /\ out.bytes.body[1].content[1].y2 = 2 * 742
  /\ out.bytes.body[1].content[2].y2 = 2 * 757

\* The result of applying the annotations of the call once more, to the
\* bytes the call returned.
Rebaked ==
  applyAnnotations(EmptyHeap((1 :> out.bytes) @@ (2 :> out.bytes)), 1, argAnns).result

\* C11: baking is additive: applying the same list to the output of
\* applyAnnotations leaves every page with the operations of the first
\* application followed by those of the second, two copies of each.
C11_BakingIsAdditive ==
  (op = "applyAnnotations" /\ out.outcome = "returned") =>
    /\ Rebaked.outcome = "returned"
    /\ Len(Rebaked.bytes.body) = Len(out.bytes.body)
    /\ \A k \in 1..Len(out.bytes.body) :
         /\ Rebaked.bytes.body[k].content =
              out.bytes.body[k].content \o out.bytes.body[k].content
         /\ Len(Rebaked.bytes.body[k].content) =
              2 * Len(DrawnOn(argFile, argAnns, k - 1))

(* ---------------------------- compress claims --------------------------- *)

HasReturned(c) == calls[c].pc = "returned"

StepsNamed(c, name) == SelectSeq(calls[c].steps, LAMBDA st : st.step = name)

LastStep(c) == calls[c].steps[Len(calls[c].steps)]

\* The results that the two implementations have returned in this state.
CompressResults ==
  {calls[c].result : c \in {k \in CallIds : HasReturned(k)}}
    \cup (IF inproc.pc = "returned" THEN {inproc.result} ELSE {})

\* max(0, round((1 - compressedSize / originalSize) * 100)), which is 0
\* whenever compressedSize >= originalSize.
ClaimedReduction(originalSize, compressedSize) ==
  IF compressedSize >= originalSize THEN 0
  ELSE MathRound(100 * (originalSize - compressedSize), originalSize)

\* C12: every returned reductionPercent is a number from 0 to 100, and on
\* success it is max(0, round((1 - compressedSize/originalSize) * 100)),
\* hence 0 whenever compressedSize >= originalSize.
C12_ReductionWithinZeroToHundred ==
  \A r \in CompressResults :
    /\ r.reductionPercent.kind = "number"
    /\ r.reductionPercent.n \in 0..100
    /\ r.success =>
         r.reductionPercent.n = ClaimedReduction(r.originalSize, r.compressedSize)

\* The shape of a failed result for an input of the given length.
FailedShape(r, inputLength) ==
  /\ r.kind = "CompressionResult"
  /\ r.success = FALSE
  /\ r.bytes.present = FALSE
  /\ r.originalSize = inputLength
  /\ r.compressedSize = inputLength
  /\ r.reductionPercent = Num(0)
  /\ r.error # ""

\* A step of the try block failed: directory creation, input write, the run
\* of the optimizer (missing binary or non-zero exit) or output read-back.
StepFailed(c) ==
  \E i \in DOMAIN calls[c].steps :
    /\ calls[c].steps[i].step \in {"mkdtemp", "writeFile", "gs", "readFile"}
    /\ ~calls[c].steps[i].ok

\* C13: whenever a step of compress fails (directory creation, input
\* write, missing binary, non-zero exit, output read-back, or the load of
\* the document in the in-process pass) the result has success = false, no
\* bytes, originalSize = compressedSize = the input length,
\* reductionPercent = 0 and a non-empty error message.
C13_FailedResultShape ==
  /\ \A c \in CallIds :
       (HasReturned(c) /\ StepFailed(c)) => FailedShape(calls[c].result, calls[c].bytes.size)
  /\ (inproc.pc = "returned" /\ ~inproc.loaded) =>
       FailedShape(inproc.result, inproc.doc.size)

C13_Witness ==
  /\ HasReturned(1)
  /\ calls[1].bytes.size = 8
  /\ Len(StepsNamed(1, "gs")) = 1
  /\ ~StepsNamed(1, "gs")[1].ok
  /\ calls[1].gsPath \notin installed
  /\ calls[1].result.compressedSize = 8

InFlight(c) == calls[c].pc \notin {"idle", "returned"}

\* C14: the handler never throws: at every await some outcome lets it go
\* on, it makes a bounded number of awaited calls, and it ends, after any
\* failure of the file system or of the external process and also after a
\* failed removal of the scratch directory, by returning a
\* CompressionResult.
C14_NeverThrows ==
  \A c \in CallIds :
    /\ calls[c].outcome # "threw"
    /\ Len(calls[c].steps) <= Len(gsPaths) + 5
    /\ InFlight(c) =>
         ENABLED (Mkdtemp(c) \/ WriteFile(c) \/ Probe(c) \/ RunGs(c) \/ ReadFile(c) \/ Cleanup(c))
    /\ HasReturned(c) =>
         /\ calls[c].outcome = "returned"
         /\ calls[c].result.kind = "CompressionResult"
         /\ calls[c].level \in CompressionLevels

C14_Witness ==
  /\ HasReturned(1)
  /\ LastStep(1).step = "rm"
  /\ ~LastStep(1).ok
  /\ tmp[calls[1].tempDir].exists
  /\ ~calls[1].result.success

\* C15: when the scratch directory was created, its recursive removal is
\* attempted exactly once, as the last awaited call, after every use of its
\* files and before the result is returned, on the success path and on
\* every failure path; no removal is attempted before that or without a
\* directory; and after a removal that succeeded the directory is gone.
C15_RemovalAttemptedOnce ==
  \A c \in CallIds :
    /\ ~HasReturned(c) => Len(StepsNamed(c, "rm")) = 0
    /\ (HasReturned(c) /\ calls[c].tempDir = NoDir) => Len(StepsNamed(c, "rm")) = 0
    /\ (HasReturned(c) /\ calls[c].tempDir # NoDir) =>
         /\ Len(StepsNamed(c, "rm")) = 1
         /\ LastStep(c).step = "rm"
         /\ LastStep(c).arg = calls[c].tempDir
         /\ LastStep(c).ok => ~tmp[calls[c].tempDir].exists

C15_Witness ==
  /\ HasReturned(1)
  /\ ~calls[1].result.success
  /\ Len(StepsNamed(1, "readFile")) = 1
  /\ LastStep(1).step = "rm"
  /\ LastStep(1).ok
  /\ ~tmp[calls[1].tempDir].exists

\* The calls that hold a scratch directory.
HoldsDir(c) == InFlight(c) /\ calls[c].tempDir # NoDir

\* C16: under every interleaving of two invocations, the directories of
\* calls in flight are pairwise distinct, a directory is new and empty when
\* its call receives it (so it is no directory of an earlier call), every
\* call holds a directory that it created and that holds nothing but its
\* own files, a successful call returns the output produced from its own
\* input, and a call removes only the directory it created.
C16_OwnScratchDirectory ==
  /\ \A c1, c2 \in CallIds :
       (c1 # c2 /\ HoldsDir(c1) /\ HoldsDir(c2)) => calls[c1].tempDir # calls[c2].tempDir
  /\ \A c \in CallIds :
       /\ calls[c].pc = "writeFile" => tmp[calls[c].tempDir] = NewDirectory(c)
       /\ HoldsDir(c) =>
            /\ tmp[calls[c].tempDir].exists
            /\ tmp[calls[c].tempDir].creator = c
            /\ tmp[calls[c].tempDir].input \in {0, c}
            /\ tmp[calls[c].tempDir].output.owner \in {0, c}
       /\ (HasReturned(c) /\ calls[c].result.success) => calls[c].result.bytes.owner = c
       /\ (HasReturned(c) /\ Len(StepsNamed(c, "rm")) = 1 /\ LastStep(c).ok) =>
            calls[c].removed = c

C16_Witness ==
  /\ calls[1].pc = "readFile"
  /\ calls[2].pc = "rm"
  /\ calls[2].result.success
  /\ \E d \in DirNames :
       /\ d \notin {calls[1].tempDir, calls[2].tempDir}
       /\ tmp[d].exists

\* C17: the version checks go through the candidates in the fixed order,
\* stop at the first one that succeeds, and the real invocation uses that
\* candidate; when every check fails the real invocation uses 'gs', and a
\* real invocation that fails gives a failed result.
C17_DiscoveryOrder ==
  \A c \in CallIds :
    LET probes == StepsNamed(c, "probe")
        runs == StepsNamed(c, "gs")
    IN /\ Len(probes) <= Len(gsPaths)
       /\ \A k \in 1..Len(probes) :
            /\ probes[k].arg = gsPaths[k]
            /\ k < Len(probes) => ~probes[k].ok
       /\ Len(runs) <= 1
       /\ Len(runs) = 1 =>
            /\ Len(probes) >= 1
            /\ probes[Len(probes)].ok => runs[1].arg = probes[Len(probes)].arg
            /\ ~probes[Len(probes)].ok =>
                 (Len(probes) = Len(gsPaths) /\ runs[1].arg = "gs")
            /\ (HasReturned(c) /\ ~runs[1].ok) =>
                 FailedShape(calls[c].result, calls[c].bytes.size)

C17_Witness ==
  /\ HasReturned(1)
  /\ Len(StepsNamed(1, "probe")) = 3
  /\ StepsNamed(1, "probe")[3].ok
  /\ gsPaths[4] \in installed
  /\ StepsNamed(1, "gs")[1].arg = gsPaths[3]
  /\ calls[1].result.success

\* C18: a result with success = true comes only from a run of the
\* optimizer that exited with code 0 and left a non-empty output file.
C18_SuccessNeedsPopulatedOutput ==
  \A c \in CallIds :
    (HasReturned(c) /\ calls[c].result.success) =>
      /\ Len(StepsNamed(c, "gs")) = 1
      /\ StepsNamed(c, "gs")[1].ok
      /\ calls[c].result.bytes.present
      /\ calls[c].result.compressedSize > 0

HandlerOps ==
  {"readFile", "writeFile", "loadPdfInfo", "mergePdfs", "applyAnnotations",
   "reorderPages", "extractPages", "deletePages"}

StructuredFailure ==
  /\ reply.settled = "resolved"
  /\ reply.success = FALSE
  /\ reply.error # ""
  /\ reply.data = NoBytes

\* C20: every PDF handler resolves; when the operation behind it failed on
\* its input (bytes that are no PDF, an index outside the document, a path
\* that cannot be read or written) the answer is { success: false, error }
\* with the operation's message and without data, and no exception reaches
\* the caller; when the operation succeeded the answer has success = true
\* and the operation's payload.
C20_HandlersAnswerStructured ==
  op # "idle" =>
    /\ op \in HandlerOps
    /\ reply.settled = "resolved"
    /\ (out.outcome = "threw" \/ ~out.success) =>
         (StructuredFailure /\ reply.error = out.error)
    /\ (out.outcome = "returned" /\ out.success) =>
         (reply.success /\ reply.data = out.bytes /\ reply.error = "")
    /\ (op \in {"loadPdfInfo", "applyAnnotations", "reorderPages", "extractPages",
                "deletePages"} /\ ~Loadable(argFile)) => StructuredFailure
    /\ (op \in {"reorderPages", "extractPages"} /\ OutOfRange(argFile, argList)) =>
         StructuredFailure
    /\ (op = "mergePdfs" /\ \E i \in 1..Len(argSources) : ~Loadable(argSources[i].file)) =>
         StructuredFailure

C20_Witness ==
  /\ op = "extractPages"
  /\ Loadable(argFile)
  /\ OutOfRange(argFile, argList)
  /\ out.outcome = "threw"
  /\ StructuredFailure

(* --------------------------- pipeline claims, 2 ------------------------- *)

\* The merge of the single source { bytes, selectedPages: L } for the file
\* and the list of the extract or reorder call of this state.
SingleSourceMerge ==
  mergePdfs(EmptyHeap(argFiles), <<[file |-> argFile, selectedPages |-> argList]>>).result

\* C21: for every list L, extractPages(bytes, L) and reorderPages(bytes, L)
\* give a document exactly when the merge of the single source
\* { bytes, selectedPages: L } does, with the same page sequence, the empty
\* list included.
C21_SameAsSingleSourceMerge ==
  op \in {"extractPages", "reorderPages"} =>
    /\ (out.outcome = "returned") <=> SingleSourceMerge.success
    /\ out.bytes.body = SingleSourceMerge.bytes.body

\* C21 amended: the same for every non-empty list; for the empty list
\* extractPages and reorderPages give one blank default page, where the
\* merge gives all pages of the source.
C21_SameAsMergeOfNonEmptyList ==
  op \in {"extractPages", "reorderPages"} =>
    /\ (out.outcome = "returned") <=> SingleSourceMerge.success
    /\ argList # <<>> => out.bytes.body = SingleSourceMerge.bytes.body
    /\ (argList = <<>> /\ Loadable(argFile)) =>
         /\ out.bytes.body = <<DefaultPage>>
         /\ SingleSourceMerge.bytes.body =
              IF PagesOf(argFile) = <<>> THEN <<DefaultPage>> ELSE PagesOf(argFile)

C21_Witness ==
  /\ op = "extractPages"
  /\ argList = <<2, 0>>
  /\ out.outcome = "returned"
  /\ SingleSourceMerge.success
  /\ [k \in 1..Len(out.bytes.body) |-> out.bytes.body[k].index] = <<2, 0>>
  /\ out.bytes.body = SingleSourceMerge.bytes.body

\* The drawing call that the claim assigns to an annotation type.
ClaimedDraw(a) ==
  CASE a.type = "highlight" -> "rectangle-fill"
    [] a.type = "underline" -> "line"
    [] a.type = "strikeout" -> "line"
    [] a.type = "rectangle" -> "rectangle-border"
    [] a.type = "text" -> "text"

\* C23: every page of the result carries one drawing operation per
\* annotation that targets it and is a highlight, underline, strikeout,
\* rectangle or text with content, in list order, and nothing else: no
\* operation for text without content, freeform or arrow, and none on
\* another page.
C23_OneOperationPerAnnotation ==
  (op = "applyAnnotations" /\ Loadable(argFile)) =>
    /\ out.outcome = "returned"
    /\ \A k \in 1..Len(out.bytes.body) :
         LET ops == out.bytes.body[k].content
             anns == DrawnOn(argFile, argAnns, k - 1)
         IN /\ Len(ops) = Len(anns)
            /\ \A j \in 1..Len(anns) :
                 /\ ops[j].draw = ClaimedDraw(anns[j])
                 /\ ops[j].x = anns[j].rect.x
                 /\ ops[j].opacity = anns[j].opacity
                 /\ anns[j].type = "text" =>
                      (ops[j].text = anns[j].content /\ ops[j].height = 12)

C23_Witness ==
  /\ op = "applyAnnotations"
  /\ out.outcome = "returned"
  /\ Len(argAnns) = 2
  /\ argAnns[1].type = "text" /\ argAnns[1].content = "note" /\ argAnns[1].pageIndex = 1
  /\ argAnns[2].type = "underline" /\ argAnns[2].pageIndex = 1
  /\ argAnns[1].rect # argAnns[2].rect
  /\ Len(out.bytes.body) >= 2
  /\ Len(out.bytes.body[2].content) = 2
  /\ out.bytes.body[1].content = <<>>

(* --------------------------- compress claims, 2 ------------------------- *)

\* The place of an awaited call in the claimed order.
StepRank(name) ==
  CASE name = "mkdtemp" -> 1
    [] name = "writeFile" -> 2
    [] name = "probe" -> 3
    [] name = "gs" -> 4
    [] name = "readFile" -> 5
    [] name = "rm" -> 6

\* C24: within one call the awaited calls come in the order create
\* directory, write input, probe (once or more), run the optimizer, read
\* the output, and each begins only when the one before it succeeded (a
\* probe may fail and the next probe or the run follows); the files are
\* those of the call's directory; sizes are computed only from an output
\* that was read; no read follows a failed run and no probe or run
\* follows a failed write.
C24_StepsInOrder ==
  \A c \in CallIds :
    LET steps == calls[c].steps IN
    /\ Len(steps) >= 1 => steps[1].step = "mkdtemp"
    /\ \A i \in 2..Len(steps) :
         /\ steps[i].step # "rm" =>
              \/ steps[i].step = "probe" /\ steps[i - 1].step = "probe" /\ ~steps[i - 1].ok
              \/ /\ StepRank(steps[i].step) = StepRank(steps[i - 1].step) + 1
                 /\ steps[i - 1].ok \/ steps[i - 1].step = "probe"
         /\ steps[i].step \in {"writeFile", "readFile", "rm"} =>
              (steps[i].arg = steps[1].arg /\ steps[1].ok)
    /\ calls[c].pc \in {"gs", "readFile"} => tmp[calls[c].tempDir].input = c
    /\ (\E i \in 1..Len(steps) : steps[i].step = "gs" /\ ~steps[i].ok) =>
         Len(StepsNamed(c, "readFile")) = 0
    /\ (\E i \in 1..Len(steps) : steps[i].step = "writeFile" /\ ~steps[i].ok) =>
         (Len(StepsNamed(c, "gs")) = 0 /\ Len(StepsNamed(c, "probe")) = 0)
    /\ calls[c].result.success =>
         (Len(StepsNamed(c, "readFile")) = 1 /\ StepsNamed(c, "readFile")[1].ok)

C24_Witness ==
  /\ HasReturned(1)
  /\ calls[1].result.success
  /\ [i \in 1..Len(calls[1].steps) |-> calls[1].steps[i].step] =
       <<"mkdtemp", "writeFile", "probe", "probe", "gs", "readFile", "rm">>
  /\ ~calls[1].steps[3].ok


(* --------------------------- merge panel claims ------------------------- *)

MergeRun == running["executeMerge"]

\* The source of an executeMerge call that has the given id.
SourceOf(list, id) == CHOOSE src \in {list[i] : i \in 1..Len(list)} : src.id = id

\* The pages of the input files in the order of a displayed page list.
ShownPages(list, shown) ==
  [k \in 1..Len(shown) |->
     files[SourceOf(list, shown[k].sourceId).file].body[shown[k].pageIndex + 1]]

\* C22: the document executeMerge produces has its pages in the order of
\* the displayed mergePages list, the order the user arranged, also when
\* pages of different sources are interleaved.
C22_MergeFollowsDisplayedOrder ==
  MergeRun.pc \in {"savePdfDialog", "writePdf"} =>
    MergeRun.bytes.body = ShownPages(MergeRun.list, MergeRun.shown)

Count(list, v) == Len(SelectSeq(list, LAMBDA x : x = v))

SourceIds == {mergeSources[i].id : i \in 1..Len(mergeSources)}

PagesConsistent ==
  /\ \A k \in 1..Len(mergePages) : mergePages[k].sourceId \in SourceIds
  /\ \A i \in 1..Len(mergeSources) :
       LET own == SelectSeq(mergePages, LAMBDA pg : pg.sourceId = mergeSources[i].id)
           indices == [k \in 1..Len(own) |-> own[k].pageIndex]
       IN \A v \in 0..MaxIds :
            Count(indices, v) = Count(mergeSources[i].selectedPages, v)

\* A step that takes the source with the given id, and no other, off mergeSources.
RemovesSource(id) ==
  /\ id \in SourceIds
  /\ mergeSources' = SelectSeq(mergeSources, LAMBDA src : src.id # id)

\* C28: every mergePages entry refers to a source of mergeSources and the
\* page indices of a source's entries are its selectedPages as a multiset,
\* whatever was added, removed, cleared, dragged or given a thumbnail; and
\* removing a source removes all and only its pages and keeps the order of
\* the others.
C28_MergePagesFollowSources ==
  /\ []PagesConsistent
  /\ [][\A id \in 1..MaxIds :
          RemovesSource(id) =>
            mergePages' = SelectSeq(mergePages, LAMBDA pg : pg.sourceId # id)]_vars

\* Two files were added, the pages of the first dragged into descending
\* order and given thumbnails, and the second source removed again.
C28_Witness ==
  /\ ids = 5
  /\ Len(mergeSources) = 1
  /\ mergeSources[1].id = 1
  /\ Len(mergePages) = 2
  /\ mergePages[1].pageIndex = 1
  /\ mergePages[2].pageIndex = 0
  /\ mergePages[1].thumbnail



(* ------------------------ annotation layer claims ----------------------- *)

\* The step adds annotations to the store.
Creates == Len(storeAnnotations') > Len(storeAnnotations)

Created == storeAnnotations'[Len(storeAnnotations')]

DrawingReset == drawing' = NotDrawing

\* C25: an annotation the layer creates has a rect of width and height of
\* at least 5, is created with a current tool other than 'select', and is
\* the only one of its mouse-down (the step that creates it starts in a
\* drawing state and ends it); mouse-up and mouse-leave reset the drawing
\* state.
C25_CreatedByDragWithTool ==
  [][Creates =>
       /\ Len(storeAnnotations') = Len(storeAnnotations) + 1
       /\ Created.rect.width >= 5
       /\ Created.rect.height >= 5
       /\ currentTool.type # "select"
       /\ Created.type # "select"
       /\ drawing.isDrawing
       /\ DrawingReset]_vars

\* The parts of C25 about the rect, the single creation and the reset.
C25_CreatedByDrag ==
  [][Creates =>
       /\ Len(storeAnnotations') = Len(storeAnnotations) + 1
       /\ Created.rect.width >= 5
       /\ Created.rect.height >= 5
       /\ drawing.isDrawing
       /\ DrawingReset]_vars


(* ------------------------------ store claims ---------------------------- *)

SaveRun == running["savePdf"]

\* The document with the annotations of a list applied once to the bytes
\* that were loaded from a file.
BakedOnce(f, list) == applyAnnotations(EmptyHeap(files), f, list).result.bytes

SavedFiles == SelectSeq(disk, LAMBDA w : w.by = "savePdf")

\* The draw operations on the pages of a document
DrawCount(bytes) == Sum([k \in 1..Len(bytes.body) |-> Len(bytes.body[k].content)], 1)

\* C26: savePdf and compressPdf leave the bytes of the open document and
\* the annotation list as they are, so that every file a save writes with
\* the annotations applied is the loaded document with each annotation
\* applied once, however many saves came before.
C26_SavesBakeOnce ==
  /\ [](currentPdf.open => currentPdf.bytes = files[currentPdf.path])
  /\ [](\A k \in 1..Len(disk) :
          disk[k].by = "savePdf" /\ disk[k].applied = "applied" =>
            /\ disk[k].bytes = BakedOnce(disk[k].path, disk[k].list)
            /\ DrawCount(disk[k].bytes) = Len(disk[k].list))
  /\ [][(running["savePdf"] # running'["savePdf"]
           \/ running["compressPdf"] # running'["compressPdf"]) =>
          UNCHANGED <<currentPdf, storeAnnotations>>]_vars

\* Two saves of the open document, the second with one annotation more.
C26_Witness ==
  /\ Len(disk) = 2
  /\ disk[1].by = "savePdf" /\ disk[1].applied = "applied" /\ Len(disk[1].list) = 1
  /\ disk[2].by = "savePdf" /\ disk[2].applied = "applied" /\ Len(disk[2].list) = 2

\* The save finishes: it answers the write and is no more in flight.
SaveFinishes == SaveRun.pc = "writePdf" /\ running'["savePdf"].pc = "idle"

InFlightStore == \E a \in StoreActions : running[a].pc # "idle"

\* C29: isLoading is true whenever one of openPdf, savePdf, executeMerge
\* and compressPdf is in flight, and false when none is.
C29_LoadingIffInFlight == isLoading <=> InFlightStore

\* The part of C29 about the end: with no action in flight isLoading is false.
C29_IdleMeansNotLoading == ~InFlightStore => ~isLoading


\* C30: with a document open the current page is a page of it, whatever
\* was opened, closed, rendered or clicked before, also with the
\* thumbnails of an earlier, longer document in the store; and every
\* annotation is on a page of the document.
C30_CurrentPageInDocument ==
  currentPdf.open =>
    /\ currentPage >= 0
    /\ currentPage < currentPdf.pageCount
    /\ \A k \in 1..Len(storeAnnotations) :
         storeAnnotations[k].pageIndex < currentPdf.pageCount

====
